---- MODULE Spec2Model ----
(***************************************************************************)
(* Model of slippi-wr (winrate-overlay-advanced): the live tracker         *)
(* (watcher.py), the frame reader and aggregator (slp_parser.py) and the   *)
(* import / game-end plumbing of the application (main.py).                *)
(*                                                                         *)
(* Strings are sequences of one-character strings so that lower(),         *)
(* strip(), endswith(), startswith() and the substring test `a in b` are   *)
(* computed, not assumed.  Python's None is the empty sequence for         *)
(* strings and optional records, and -1 for optional integers.             *)
(***************************************************************************)
EXTENDS Integers, Sequences, FiniteSets, TLC

---------------------------------------------------------------------------
(* Bounds of the model *)

\* file sizes a poll can read are 0..MaxSize
MaxSize == 2
\* the tracker stops producing reports after this many
MaxReports == 4
\* timer threads that can run _on_new_file at a time
MaxTimers == 1
ConcMaxSize == 1
ConcMaxReports == 2
ConcMaxEvents == 2
ConcMaxStable == 4
MaxBody == 6
MaxLen == 25
MaxCalls == 2
\* files of the large replay directory, and game ends the live tracker reports
NumFiles == 101
MaxLive == 2
\* stocks and damage a final frame can hold are 0..MaxStocks and 0..MaxDamage
MaxStocks == 2
MaxDamage == 2
\* calls of _record_game made in sequence on one store
MaxRecorded == 2
\* files of a directory scored in sequence, and game ends scored after them
MaxFiles == 4
MaxEnds == 4

---------------------------------------------------------------------------
(* Strings *)

None == <<>>
NoInt == -1

\* str.lower() on the characters the model uses
LowerChar(c) ==
    CASE c = "A" -> "a" [] c = "B" -> "b" [] c = "E" -> "e" [] c = "L" -> "l"
      [] c = "M" -> "m" [] c = "O" -> "o" [] c = "P" -> "p" [] c = "S" -> "s"
      [] c = "U" -> "u" [] c = "X" -> "x" [] c = "Y" -> "y"
      [] OTHER -> c

Lower(s) == [i \in 1..Len(s) |-> LowerChar(s[i])]

\* str.strip(): leading and trailing blanks removed
RECURSIVE StripLeft(_)
StripLeft(s) == IF s # <<>> /\ Head(s) = " " THEN StripLeft(Tail(s)) ELSE s

RECURSIVE StripRight(_)
StripRight(s) ==
    IF s # <<>> /\ s[Len(s)] = " " THEN StripRight(SubSeq(s, 1, Len(s) - 1)) ELSE s

Strip(s) == StripRight(StripLeft(s))

\* Python's `a in b` on strings: a occurs in b as a contiguous substring
Contains(a, b) ==
    \E i \in 0..(Len(b) - Len(a)) : SubSeq(b, i + 1, i + Len(a)) = a

StartsWith(s, prefix) ==
    Len(s) >= Len(prefix) /\ SubSeq(s, 1, Len(prefix)) = prefix

EndsWith(s, suffix) ==
    Len(s) >= Len(suffix) /\ SubSeq(s, Len(s) - Len(suffix) + 1, Len(s)) = suffix

---------------------------------------------------------------------------
(* The values the live tracker is run on *)

PathA == <<"a", ".", "s", "l", "p">>
PathB == <<"b", ".", "S", "L", "P">>
PathT == <<"c", ".", "t", "x", "t">>
Paths == {PathA, PathB, PathT}

\* the connect code handed to SlpWatcher(...), before strip().lower()
MyCodeArg == <<" ", "M", "e", "#", "1">>

CodeMe  == <<"M", "E", "#", "1">>
CodeOp1 == <<"O", "P", "#", "1">>
CodeOp2 == <<"X", "Y", "#", "2">>
\* another player's code that has the user's code as a substring
CodeSup == <<"A", "M", "E", "#", "1">>

NameAl == <<"A", "l">>
NameBo == <<"B", "o">>
NameUnknown == <<"U", "n", "k", "n", "o", "w", "n">>

Player(port, name, code, char) ==
    [port |-> port, display_name |-> name, connect_code |-> code, character_id |-> char]

\* what read_live_player_info can return for a file: None, or the non-empty
\* list of non-empty slots in port order
PlayerReads ==
    { None,
      << Player(0, NameBo, CodeMe, 2), Player(1, NameAl, CodeOp1, 9) >>,
      << Player(0, NameAl, CodeOp1, 9), Player(1, NameBo, CodeMe, 2) >>,
      << Player(0, NameAl, CodeOp1, 9), Player(1, None, CodeOp2, 20) >>,
      << Player(0, NameBo, CodeMe, 2) >>,
      << Player(1, None, CodeOp2, 20) >>,
      << Player(0, NameBo, CodeMe, 2), Player(1, NameAl, CodeOp1, 9),
         Player(2, None, CodeOp2, 20) >>,
      << Player(0, NameBo, CodeMe, 2), Player(3, NameAl, None, 9) >>,
      << Player(0, NameBo, CodeSup, NoInt), Player(1, NameAl, CodeOp1, 9) >> }

MidRanked == <<"m", "o", "d", "e", ".", "r", "a", "n", "k", "e", "d", "-", "7">>
MidUnranked == <<"m", "o", "d", "e", ".", "u", "n", "r", "a", "n", "k", "e", "d", "-", "7">>

\* the mode of an id that holds the prefix anywhere
GameModeOfAnywhere(match_id) ==
    IF Contains(<<"m", "o", "d", "e", ".", "r", "a", "n", "k", "e", "d">>, match_id)
      THEN "ranked"
    ELSE IF Contains(<<"m", "o", "d", "e", ".", "u", "n", "r", "a", "n", "k", "e", "d">>,
                     match_id)
      THEN "unranked"
    ELSE "unknown"

\* slp_parser.py 203-208: the mode is read off the match-id prefix
GameModeOf(match_id) ==
    IF StartsWith(match_id, <<"m", "o", "d", "e", ".", "r", "a", "n", "k", "e", "d">>)
      THEN "ranked"
    ELSE IF StartsWith(match_id,
              <<"m", "o", "d", "e", ".", "u", "n", "r", "a", "n", "k", "e", "d">>)
      THEN "unranked"
    ELSE "unknown"

MatchMeta(match_id, game_number) ==
    [match_id |-> match_id, game_number |-> game_number, game_mode |-> GameModeOf(match_id)]

\* what read_live_match_metadata can return: None (as the empty sequence) or
\* one dict
MetaReads ==
    { None, << MatchMeta(MidRanked, 2) >>, << MatchMeta(MidUnranked, 1) >> }

\* "DisplayName (CODE#123)"
FormatId(name, code) == name \o <<" ", "(">> \o code \o <<")">>

IdMe  == FormatId(NameBo, CodeMe)
IdOp1 == FormatId(NameAl, CodeOp1)
IdOp2 == FormatId(NameUnknown, CodeOp2)

\* what parse_completed_game can return at finalize: None, or one dict of a
\* two-player game (slp_parser.py 363-373)
ParseResult(pl, w, m) ==
    << [players |-> pl, winner_port |-> w, stage |-> 31,
        characters |-> [q \in DOMAIN pl |-> 10 + q],
        game_mode |-> m.game_mode, match_id |-> m.match_id,
        game_number |-> m.game_number] >>

ParseResults ==
    { None,
      ParseResult((0 :> IdMe @@ 1 :> IdOp1), NoInt, MatchMeta(MidRanked, 2)),
      ParseResult((0 :> IdMe @@ 1 :> IdOp1), 0, MatchMeta(MidRanked, 2)),
      ParseResult((0 :> IdMe @@ 1 :> IdOp1), 1, MatchMeta(MidRanked, 2)),
      ParseResult((1 :> IdOp1 @@ 3 :> IdMe), 3, MatchMeta(None, 0)),
      ParseResult((0 :> IdOp1 @@ 1 :> IdOp2), 0, MatchMeta(None, 0)) }

\* the reads drawn when the handlers are run statement by statement
ConcPlayerReads ==
    { None,
      << Player(0, NameBo, CodeMe, 2), Player(1, NameAl, CodeOp1, 9) >> }

ConcMetaReads == { None, << MatchMeta(MidRanked, 2) >> }

ConcParseResults ==
    { None, ParseResult((0 :> IdMe @@ 1 :> IdOp1), 0, MatchMeta(MidRanked, 2)) }

---------------------------------------------------------------------------
(* State *)

VARIABLES
    \* SlpWatcher (watcher.py 57-68)
    tracked_file, tracked_opponent, tracked_opp_char, tracked_my_char,
    tracked_game_mode, tracked_match_id, tracked_game_number,
    last_size, stable_count, running, observer,
    \* what the tracker has been seen to do: the sizes its polls read for the
    \* file tracked now (the last StableThreshold + 1 of them), the last report
    \* it emitted and how many it emitted
    polled, emitted, nreports,
    \* the threads of the tracker when its handlers are run statement by
    \* statement: the poll thread (its position and locals) and the threads that
    \* run _on_new_file (the observer thread and the timer threads)
    poll, cb, nevents,
    \* a replay file (its bytes, whether it can be opened) and what
    \* _read_game_start_buf returned for it: returned is the last return value
    \* and calls counts the calls made since the file last changed
    data, readable, returned, calls,
    \* the aggregate stores (0 the one the app starts with, 1 the one a bulk
    \* import builds), which of them the app holds as self.records and
    \* self.overall, the live sets, the import thread (its position and
    \* locals), the callbacks queued on the UI thread, the store as _persist
    \* last wrote it, whether _on_import_done has run, and counts of the game
    \* ends reported and of the calls of _record_game completed
    stores, app_store, live_sets, scan, uiq, persisted, imported, nlive, made,
    \* a parsed replay and what _determine_winner_port returned for it
    replay, resolved,
    \* a game-start buffer as the Frame Reader returned it, and what the
    \* extractors returned for it
    start_buf, fields,
    \* a store that calls made one after the other update, and the
    \* arguments of the calls of _record_game made on it so far
    agg, history,
    \* the scoring in sequence: whether the import or the tracker is at
    \* work, the ranked games the import grouped by match id, the live
    \* sets, the reports scored, and the files handled in this phase
    phase, batch, open_sets, ends, handled

trackerState ==
    << tracked_file, tracked_opponent, tracked_opp_char, tracked_my_char,
       tracked_game_mode, tracked_match_id, tracked_game_number,
       last_size, stable_count >>

trackerVars == << trackerState, running, observer, polled, emitted, nreports >>

concVars == << poll, cb, nevents >>

readerVars == << data, readable, returned, calls >>

importVars ==
    << stores, app_store, live_sets, scan, uiq, persisted, imported, nlive, made >>

outcomeVars == << replay, resolved, start_buf, fields >>

scoreVars == << agg, history, phase, batch, open_sets, ends, handled >>

restVars == << readerVars, importVars, outcomeVars, scoreVars >>

vars == << trackerVars, concVars, restVars >>

\* watcher.py 159: polls without growth that end a game
StableThreshold == 3

\* watcher.py 52
my_code == Lower(Strip(MyCodeArg))

DotSlp == <<".", "s", "l", "p">>

\* the paths _on_new_file goes on with (watcher.py 94)
SlpPaths == {path \in Paths : EndsWith(Lower(path), DotSlp)}

NoWho == [opp_name |-> None, opp_char |-> NoInt, my_char |-> NoInt]

\* the threads that run _on_new_file: 0 is the observer thread (on_modified
\* calls it, watcher.py 222), the others are threading.Timer threads
\* (watcher.py 217)
CbThreads == 0..MaxTimers

CbIdle == [pc |-> "idle", path |-> None, who |-> NoWho, meta |-> None]

PollNew ==
    [pc |-> "new", size |-> 0, count |-> 0, filepath |-> None, opponent |-> None,
     opp_char |-> NoInt, my_char |-> NoInt, game_mode |-> "unknown",
     match_id |-> None, game_number |-> 0]

Report(kind, opponent, i_won, mode, stage, opp_char, my_char, match_id, game_number, file) ==
    [kind |-> kind, opponent |-> opponent, i_won |-> i_won, game_mode |-> mode,
     stage_id |-> stage, opp_char |-> opp_char, my_char |-> my_char,
     match_id |-> match_id, game_number |-> game_number, file |-> file]

NoReport == Report("none", None, "None", "unknown", 0, NoInt, NoInt, None, 0, None)

\* watcher.py 57-68: the tracker after construction
TrackerInit ==
    /\ tracked_file = None
    /\ tracked_opponent = None
    /\ tracked_opp_char = NoInt
    /\ tracked_my_char = NoInt
    /\ tracked_game_mode = "unknown"
    /\ tracked_match_id = None
    /\ tracked_game_number = 0
    /\ last_size = 0
    /\ stable_count = 0
    /\ running = FALSE
    /\ observer = FALSE
    /\ polled = [path \in SlpPaths |-> <<>>]
    /\ emitted = NoReport
    /\ nreports = 0
    /\ poll = PollNew
    /\ cb = [t \in CbThreads |-> CbIdle]
    /\ nevents = 0

---------------------------------------------------------------------------
(* The live tracker, one handler per step *)

\* watcher.py 101-111: the loop over the extracted slots; the last slot of
\* each kind wins
RECURSIVE ScanPlayers(_, _)
ScanPlayers(players, acc) ==
    IF players = <<>> THEN acc
    ELSE LET p == Head(players)
             code == p.connect_code
             next ==
               IF code # None /\ Contains(my_code, Lower(code))
                 THEN [acc EXCEPT !.my_char = p.character_id]
               ELSE IF code # None /\ ~Contains(my_code, Lower(code))
                 THEN [acc EXCEPT
                         !.opp_name = FormatId(IF p.display_name # None
                                                 THEN p.display_name
                                                 ELSE NameUnknown, code),
                         !.opp_char = p.character_id]
               ELSE acc
         IN ScanPlayers(Tail(players), next)

Identify(players) ==
    ScanPlayers(players, [opp_name |-> None, opp_char |-> NoInt, my_char |-> NoInt])

\* watcher.py 70-84
Start ==
    /\ ~observer
    /\ running' = TRUE
    /\ observer' = TRUE
    /\ UNCHANGED << trackerState, polled, emitted, nreports, concVars, restVars >>

\* watcher.py 86-91
Stop ==
    /\ running \/ observer
    /\ running' = FALSE
    /\ observer' = FALSE
    /\ UNCHANGED << trackerState, polled, emitted, nreports, concVars, restVars >>

\* tracking that starts without resetting the size and the count
StartTrackingKeepsCount(path, who, match_meta) ==
    /\ tracked_file' = path
    /\ tracked_opponent' = who.opp_name
    /\ tracked_opp_char' = who.opp_char
    /\ tracked_my_char' = who.my_char
    /\ tracked_game_mode' = IF match_meta # None THEN match_meta[1].game_mode ELSE "unknown"
    /\ tracked_match_id' = IF match_meta # None THEN match_meta[1].match_id ELSE None
    /\ tracked_game_number' = IF match_meta # None THEN match_meta[1].game_number ELSE 0
    /\ emitted' = Report("game_start", who.opp_name, "None", tracked_game_mode', 0,
                         who.opp_char, who.my_char, None, 0, path)
    /\ nreports' = nreports + 1
    /\ polled' = [q \in SlpPaths |-> <<>>]
    /\ UNCHANGED << last_size, stable_count, running, observer, concVars, restVars >>

\* watcher.py 113-139: tracking starts; match_meta is what
\* read_live_match_metadata returns for the path
StartTracking(path, who, match_meta) ==
    /\ tracked_file' = path
    /\ tracked_opponent' = who.opp_name
    /\ tracked_opp_char' = who.opp_char
    /\ tracked_my_char' = who.my_char
    /\ last_size' = 0
    /\ stable_count' = 0
    /\ tracked_game_mode' = IF match_meta # None THEN match_meta[1].game_mode ELSE "unknown"
    /\ tracked_match_id' = IF match_meta # None THEN match_meta[1].match_id ELSE None
    /\ tracked_game_number' = IF match_meta # None THEN match_meta[1].game_number ELSE 0
    /\ emitted' = Report("game_start", who.opp_name, "None", tracked_game_mode', 0,
                         who.opp_char, who.my_char, None, 0, path)
    /\ nreports' = nreports + 1
    /\ polled' = [q \in SlpPaths |-> <<>>]
    /\ UNCHANGED << running, observer, concVars, restVars >>

\* watcher.py 98-139: _on_new_file once read_live_player_info has returned
\* players
OnNewFileRead(path, players) ==
    IF players = None
      THEN UNCHANGED vars
      ELSE LET who == Identify(players)
           IN IF who.opp_name # None /\ path # tracked_file
                THEN \E match_meta \in MetaReads : StartTracking(path, who, match_meta)
                ELSE UNCHANGED vars

\* watcher.py 93-139
OnNewFile(path) ==
    IF ~EndsWith(Lower(path), DotSlp)
      THEN UNCHANGED vars
      ELSE \E players \in PlayerReads : OnNewFileRead(path, players)

\* watcher.py 215-217: the created event, and the timer that runs
\* _on_new_file on the path half a second later
OnCreated ==
    /\ observer
    /\ nreports < MaxReports
    /\ \E path \in Paths : OnNewFile(path)

\* a modified event that is handled whether or not a file is tracked
OnModifiedAlways ==
    /\ observer
    /\ nreports < MaxReports
    /\ \E path \in Paths : OnNewFile(path)

\* watcher.py 219-222
OnModified ==
    /\ observer
    /\ nreports < MaxReports
    /\ \E path \in Paths :
         IF EndsWith(Lower(path), DotSlp) /\ tracked_file = None
           THEN OnNewFile(path)
           ELSE UNCHANGED vars

\* the port of the user (pid holds the user's code) and of the other player,
\* watcher.py 184-190; the last port of each kind wins
MyPortOf(players) ==
    LET mine == {q \in DOMAIN players : Contains(my_code, Lower(players[q]))}
    IN IF mine = {} THEN NoInt ELSE CHOOSE q \in mine : \A r \in mine : r <= q

OppPortOf(players) ==
    LET other == {q \in DOMAIN players : ~Contains(my_code, Lower(players[q]))}
    IN IF other = {} THEN NoInt ELSE CHOOSE q \in other : \A r \in other : r <= q

OrZero(x) == IF x = NoInt THEN 0 ELSE x

\* a finalize that reports nothing when the full parse fails
FinalizeGameSilentOnFailure(result) ==
    LET res == result[1]
        my_port == MyPortOf(res.players)
        opp_port == OppPortOf(res.players)
        i_won == IF my_port # NoInt /\ res.winner_port # NoInt
                   THEN (IF res.winner_port = my_port THEN "True" ELSE "False")
                   ELSE "None"
    IN /\ tracked_file' = None
       /\ tracked_opponent' = None
       /\ tracked_opp_char' = NoInt
       /\ tracked_my_char' = NoInt
       /\ stable_count' = 0
       /\ IF tracked_file = None \/ tracked_opponent = None \/ result = None
            THEN UNCHANGED << emitted, nreports >>
            ELSE /\ emitted' =
                      Report("game_end", tracked_opponent, i_won, res.game_mode, res.stage,
                             IF opp_port \in DOMAIN res.characters
                               THEN res.characters[opp_port]
                               ELSE OrZero(tracked_opp_char),
                             IF my_port \in DOMAIN res.characters
                               THEN res.characters[my_port]
                               ELSE OrZero(tracked_my_char),
                             res.match_id, res.game_number, tracked_file)
                 /\ nreports' = nreports + 1
       /\ UNCHANGED << tracked_game_mode, tracked_match_id, tracked_game_number >>

\* watcher.py 162-207
FinalizeGame(result) ==
    LET filepath == tracked_file
        opponent == tracked_opponent
        res == result[1]
        my_port == MyPortOf(res.players)
        opp_port == OppPortOf(res.players)
        i_won == IF result # None /\ my_port # NoInt /\ res.winner_port # NoInt
                   THEN (IF res.winner_port = my_port THEN "True" ELSE "False")
                   ELSE "None"
        opp_char == IF result = None THEN tracked_opp_char
                    ELSE IF opp_port \in DOMAIN res.characters
                           THEN res.characters[opp_port]
                           ELSE OrZero(tracked_opp_char)
        my_char == IF result = None THEN tracked_my_char
                   ELSE IF my_port \in DOMAIN res.characters
                          THEN res.characters[my_port]
                          ELSE OrZero(tracked_my_char)
    IN /\ tracked_file' = None
       /\ tracked_opponent' = None
       /\ tracked_opp_char' = NoInt
       /\ tracked_my_char' = NoInt
       /\ stable_count' = 0
       /\ IF filepath = None \/ opponent = None
            THEN UNCHANGED << emitted, nreports >>
            ELSE /\ emitted' =
                      Report("game_end", opponent, i_won,
                             IF result # None THEN res.game_mode ELSE tracked_game_mode,
                             IF result # None THEN res.stage ELSE 0,
                             OrZero(opp_char), OrZero(my_char),
                             IF result # None THEN res.match_id ELSE tracked_match_id,
                             IF result # None THEN res.game_number
                                              ELSE tracked_game_number,
                             filepath)
                 /\ nreports' = nreports + 1
       /\ UNCHANGED << tracked_game_mode, tracked_match_id, tracked_game_number >>

\* a poll that counts every read, grown or not
NextStableNoReset(size, last, count) == count + 1

\* watcher.py 153-157: the count of polls without growth
NextStable(size, last, count) == IF size = last THEN count + 1 ELSE 0

\* the sizes read for the tracked file, the last StableThreshold + 1 kept
Observe(seen, size) ==
    LET all == Append(seen, size)
    IN IF Len(all) > StableThreshold + 1 THEN Tail(all) ELSE all

\* a poll turn that restarts the count when the size cannot be read
PollTurnFailureResets(size) ==
    IF tracked_file = None
      THEN UNCHANGED vars
    ELSE IF size = NoInt
      THEN /\ stable_count' = 0
           /\ UNCHANGED << tracked_file, tracked_opponent, tracked_opp_char,
                           tracked_my_char, tracked_game_mode, tracked_match_id,
                           tracked_game_number, last_size, running, observer, polled,
                           emitted, nreports, concVars, restVars >>
    ELSE /\ polled' = [polled EXCEPT ![tracked_file] = Observe(@, size)]
         /\ last_size' = IF size = last_size THEN last_size ELSE size
         /\ UNCHANGED << running, observer, concVars, restVars >>
         /\ IF NextStable(size, last_size, stable_count) >= StableThreshold
                 /\ tracked_opponent # None
              THEN \E result \in ParseResults : FinalizeGame(result)
              ELSE /\ stable_count' = NextStable(size, last_size, stable_count)
                   /\ UNCHANGED << tracked_file, tracked_opponent, tracked_opp_char,
                                   tracked_my_char, tracked_game_mode, tracked_match_id,
                                   tracked_game_number, emitted, nreports >>

\* watcher.py 143-160: one turn of the poll loop; size is what
\* os.path.getsize returns, NoInt when it raises OSError; the result of
\* parse_completed_game is read when the game is finalized
PollTurn(size) ==
    IF tracked_file = None \/ size = NoInt
      THEN UNCHANGED vars
    ELSE /\ polled' = [polled EXCEPT ![tracked_file] = Observe(@, size)]
         /\ last_size' = IF size = last_size THEN last_size ELSE size
         /\ UNCHANGED << running, observer, concVars, restVars >>
         /\ IF NextStable(size, last_size, stable_count) >= StableThreshold
                 /\ tracked_opponent # None
              THEN \E result \in ParseResults : FinalizeGame(result)
              ELSE /\ stable_count' = NextStable(size, last_size, stable_count)
                   /\ UNCHANGED << tracked_file, tracked_opponent, tracked_opp_char,
                                   tracked_my_char, tracked_game_mode, tracked_match_id,
                                   tracked_game_number, emitted, nreports >>

Poll ==
    /\ running
    /\ nreports < MaxReports
    /\ \E size \in {NoInt} \cup (0..MaxSize) : PollTurn(size)

---------------------------------------------------------------------------
(* The Frame Reader: _read_game_start_buf (slp_parser.py 51-92) over a file *)
(* that a writer is still appending to.  Bytes are numbers 0..255; data[i]  *)
(* of the code is At(data, i) here.                                         *)

\* slp_parser.py 62: the game-start command byte 0x36
CmdGameStart == 54
\* slp_parser.py 69: the event-payloads (message sizes) command byte 0x35
CmdPayloads == 53
\* slp_parser.py 64: b"{"
OpenBrace == 123
\* slp_parser.py 59
MinLen == 16
\* slp_parser.py 65
ContainerRawPos == 15

At(d, i) == d[i + 1]

\* d[a:b] of Python: both ends are clamped to the sequence
Slice(d, a, b) ==
    LET hi == IF b < Len(d) THEN b ELSE Len(d)
    IN IF a >= hi THEN <<>> ELSE SubSeq(d, a + 1, hi)

Unavailable == [kind |-> "none", buf |-> <<>>]
Raised == [kind |-> "raise", buf |-> <<>>]
Unread == [kind |-> "unread", buf |-> <<>>]
Buffer(b) == [kind |-> "buf", buf |-> b]

\* slp_parser.py 75-82: the loop fills msg_sizes, a later record of a tag
\* replacing an earlier one; the value is msg_sizes.get(0x36), NoInt for None
GameStartSize(sizes_buf) ==
    LET at == {i \in 0..(Len(sizes_buf) - 3) :
                   i % 3 = 0 /\ At(sizes_buf, i) = CmdGameStart}
    IN IF at = {} THEN NoInt
       ELSE LET i == CHOOSE k \in at : \A m \in at : m <= k
            IN At(sizes_buf, i + 1) * 256 + At(sizes_buf, i + 2)

\* a reader that returns the file from the game-start command to its end
ReadGameStartBufToEnd(d) ==
    IF Len(d) < MinLen THEN Unavailable
    ELSE IF At(d, 0) # CmdGameStart /\ At(d, 0) # OpenBrace THEN Unavailable
    ELSE
      LET raw_pos == IF At(d, 0) = CmdGameStart THEN 0 ELSE ContainerRawPos
      IN IF raw_pos >= Len(d) \/ At(d, raw_pos) # CmdPayloads THEN Unavailable
         ELSE IF raw_pos + 1 >= Len(d) THEN Raised
         ELSE
           LET payload_len == At(d, raw_pos + 1)
               sizes_buf == Slice(d, raw_pos + 2, raw_pos + 2 + payload_len - 1)
               game_start_size == GameStartSize(sizes_buf)
               gs_offset == raw_pos + 1 + payload_len
               gs_end == gs_offset + 1 + game_start_size
           IN IF game_start_size = NoInt THEN Unavailable
              ELSE IF gs_end > Len(d) THEN Unavailable
              ELSE IF At(d, gs_offset) # CmdGameStart THEN Unavailable
              ELSE Buffer(Slice(d, gs_offset, Len(d)))

\* slp_parser.py 59-92, on the bytes read at lines 54-55
ReadGameStartBuf(d) ==
    IF Len(d) < MinLen THEN Unavailable
    ELSE IF At(d, 0) # CmdGameStart /\ At(d, 0) # OpenBrace THEN Unavailable
    ELSE
      LET raw_pos == IF At(d, 0) = CmdGameStart THEN 0 ELSE ContainerRawPos
      IN IF raw_pos >= Len(d) \/ At(d, raw_pos) # CmdPayloads THEN Unavailable
         ELSE IF raw_pos + 1 >= Len(d) THEN Raised
         ELSE
           LET payload_len == At(d, raw_pos + 1)
               sizes_buf == Slice(d, raw_pos + 2, raw_pos + 2 + payload_len - 1)
               game_start_size == GameStartSize(sizes_buf)
               gs_offset == raw_pos + 1 + payload_len
               gs_end == gs_offset + 1 + game_start_size
           IN IF game_start_size = NoInt THEN Unavailable
              ELSE IF gs_end > Len(d) THEN Unavailable
              ELSE IF At(d, gs_offset) # CmdGameStart THEN Unavailable
              ELSE Buffer(Slice(d, gs_offset, gs_end))

\* slp_parser.py 53-57: open(filepath, "rb") and f.read(); an OSError gives None
ReadFile(d, can_open) == IF can_open THEN ReadGameStartBuf(d) ELSE Unavailable

\* a reader that opens the file for writing empties it
FileAfterReadTruncating(d) == <<>>

\* slp_parser.py 54: the file is opened for reading only
FileAfterRead(d) == d

\* the bytes a writer puts after the first one: directory and command bytes
BodyBytes == {0, 4, CmdPayloads, CmdGameStart}

\* the bytes the writer can append to d: a first byte of either layout or of
\* neither, the 14 bytes of the container header that the reader never looks
\* at, MaxBody bytes of commands, then zeros
NextBytes(d) ==
    IF Len(d) = 0 THEN {OpenBrace, CmdGameStart, CmdPayloads}
    ELSE IF At(d, 0) = OpenBrace /\ Len(d) < ContainerRawPos THEN {0}
    ELSE IF At(d, 0) = OpenBrace /\ Len(d) < ContainerRawPos + MaxBody THEN BodyBytes
    ELSE IF At(d, 0) = CmdGameStart /\ Len(d) < 1 + MaxBody THEN BodyBytes
    ELSE {0}

ReaderInit ==
    /\ data = <<>>
    /\ readable = TRUE
    /\ returned = Unread
    /\ calls = 0

\* the writer (Slippi) appends one byte to the file
AppendByte ==
    /\ Len(data) < MaxLen
    /\ \E b \in NextBytes(data) : data' = Append(data, b)
    /\ returned' = Unread
    /\ calls' = 0
    /\ UNCHANGED << readable, trackerVars, concVars, importVars, outcomeVars, scoreVars >>

\* the file becomes impossible, or possible again, to open (locked, removed)
SetReadable ==
    /\ readable' = ~readable
    /\ returned' = Unread
    /\ calls' = 0
    /\ UNCHANGED << data, trackerVars, concVars, importVars, outcomeVars, scoreVars >>

\* one call of _read_game_start_buf(filepath)
Read ==
    /\ calls < MaxCalls
    /\ returned' = ReadFile(data, readable)
    /\ data' = FileAfterRead(data)
    /\ calls' = calls + 1
    /\ UNCHANGED << readable, trackerVars, concVars, importVars, outcomeVars, scoreVars >>

ReaderNext == AppendByte \/ SetReadable \/ Read

---------------------------------------------------------------------------
(* The aggregate store: _record_game, the set resolutions, and the bulk     *)
(* import of main.py running build_advanced_winrate on a thread of its own  *)
(* while the UI thread runs the callbacks handed to root.after.  A dict is  *)
(* a function, the empty dict the empty function <<>>; stages and           *)
(* characters are keyed by their ids, which stage_name and char_name map    *)
(* one to one to the names the code uses as keys; a timestamp is a number,  *)
(* 0 the empty string.                                                      *)

\* slp_parser.py 589: (idx + 1) % 100 == 0
SaveEvery == 100

\* main.py 1014: the time a live game ends, later than any file's timestamp
LiveNow == 2

Put(d, k, v) == [x \in (DOMAIN d) \cup {k} |-> IF x = k THEN v ELSE d[x]]

Get(d, k, default) == IF k \in DOMAIN d THEN d[k] ELSE default

Del(d, k) == [x \in (DOMAIN d) \ {k} |-> d[x]]

\* slp_parser.py 380-390
EmptyOpponentRecord ==
    [total |-> <<0, 0>>, ranked |-> <<0, 0>>, unranked |-> <<0, 0>>, sets |-> <<0, 0>>,
     stages |-> <<>>, their_chars |-> <<>>, last_played |-> 0]

\* slp_parser.py 393-402
EmptyOverallRecord ==
    [total |-> <<0, 0>>, ranked |-> <<0, 0>>, unranked |-> <<0, 0>>, sets |-> <<0, 0>>,
     stages |-> <<>>, my_chars |-> <<>>]

\* the two dicts that travel together: records and overall
EmptyStore == [records |-> <<>>, overall |-> EmptyOverallRecord]

\* the arguments of _record_game (slp_parser.py 405-415)
GameArgs(opp_name, i_won, game_mode, stage_id, opp_char_id, my_char_id, timestamp) ==
    [opp_name |-> opp_name, i_won |-> i_won, game_mode |-> game_mode,
     stage_id |-> stage_id, opp_char_id |-> opp_char_id, my_char_id |-> my_char_id,
     timestamp |-> timestamp]

NoGame == GameArgs(None, "None", "unknown", 0, 0, 0, 0)

\* an index that takes a win for a loss and a loss for a win
WinLossIdxSwapped(g) == IF g.i_won = "True" THEN 2 ELSE 1

\* slp_parser.py 436: idx = 0 if i_won else 1, as a position in <<wins, losses>>
WinLossIdx(g) == IF g.i_won = "True" THEN 1 ELSE 2

Statement(op, cell) == [op |-> op, cell |-> cell]

\* x[k] += 1 and x[k] = x.get(k, 0) + 1 read the cell, then write it
Increment(cell) == << Statement("load", cell), Statement("store", cell) >>

\* _record_game without the return of line 434
RecordGameStatementsNoReturn(g) ==
    << Statement("new_rec", "records"), Statement("last_played", "records") >>
    \o Increment("their_chars") \o Increment("my_chars")
    \o Increment("rec_total") \o Increment("ov_total")
    \o (IF g.game_mode \in {"ranked", "unranked"}
          THEN Increment("rec_mode") \o Increment("ov_mode")
          ELSE <<>>)
    \o << Statement("new_stage", "rec_stage") >> \o Increment("rec_stage")
    \o << Statement("new_stage", "ov_stage") >> \o Increment("ov_stage")

\* _record_game without the stage bucket of the opponent's record (lines
\* 451-453 left out)
RecordGameStatementsNoOpponentStage(g) ==
    << Statement("new_rec", "records"), Statement("last_played", "records") >>
    \o Increment("their_chars") \o Increment("my_chars")
    \o (IF g.i_won = "None" THEN <<>>
        ELSE Increment("rec_total") \o Increment("ov_total")
             \o (IF g.game_mode \in {"ranked", "unranked"}
                   THEN Increment("rec_mode") \o Increment("ov_mode")
                   ELSE <<>>)
             \o << Statement("new_stage", "ov_stage") >> \o Increment("ov_stage"))

\* slp_parser.py 417-456: the statements _record_game runs for a game, in order
RecordGameStatements(g) ==
    << Statement("new_rec", "records"), Statement("last_played", "records") >>
    \o Increment("their_chars") \o Increment("my_chars")
    \o (IF g.i_won = "None" THEN <<>>
        ELSE Increment("rec_total") \o Increment("ov_total")
             \o (IF g.game_mode \in {"ranked", "unranked"}
                   THEN Increment("rec_mode") \o Increment("ov_mode")
                   ELSE <<>>)
             \o << Statement("new_stage", "rec_stage") >> \o Increment("rec_stage")
             \o << Statement("new_stage", "ov_stage") >> \o Increment("ov_stage"))

\* the value of the cell a statement of _record_game reads
Load(st, g, cell) ==
    CASE cell = "their_chars" -> Get(st.records[g.opp_name].their_chars, g.opp_char_id, 0)
      [] cell = "my_chars" -> Get(st.overall.my_chars, g.my_char_id, 0)
      [] cell = "rec_total" -> st.records[g.opp_name].total[WinLossIdx(g)]
      [] cell = "ov_total" -> st.overall.total[WinLossIdx(g)]
      [] cell = "rec_mode" -> st.records[g.opp_name][g.game_mode][WinLossIdx(g)]
      [] cell = "ov_mode" -> st.overall[g.game_mode][WinLossIdx(g)]
      [] cell = "rec_stage" -> st.records[g.opp_name].stages[g.stage_id][WinLossIdx(g)]
      [] cell = "ov_stage" -> st.overall.stages[g.stage_id][WinLossIdx(g)]

\* the store after a statement of _record_game wrote v to the cell
Store(st, g, cell, v) ==
    CASE cell = "their_chars" ->
           [st EXCEPT !.records[g.opp_name].their_chars = Put(@, g.opp_char_id, v)]
      [] cell = "my_chars" -> [st EXCEPT !.overall.my_chars = Put(@, g.my_char_id, v)]
      [] cell = "rec_total" -> [st EXCEPT !.records[g.opp_name].total[WinLossIdx(g)] = v]
      [] cell = "ov_total" -> [st EXCEPT !.overall.total[WinLossIdx(g)] = v]
      [] cell = "rec_mode" ->
           [st EXCEPT !.records[g.opp_name][g.game_mode][WinLossIdx(g)] = v]
      [] cell = "ov_mode" -> [st EXCEPT !.overall[g.game_mode][WinLossIdx(g)] = v]
      [] cell = "rec_stage" ->
           [st EXCEPT !.records[g.opp_name].stages[g.stage_id][WinLossIdx(g)] = v]
      [] cell = "ov_stage" -> [st EXCEPT !.overall.stages[g.stage_id][WinLossIdx(g)] = v]

\* slp_parser.py 417-418
NewRecord(st, opp_name) ==
    IF opp_name \in DOMAIN st.records THEN st
    ELSE [st EXCEPT !.records = Put(@, opp_name, EmptyOpponentRecord)]

\* a last_played that takes every non-empty timestamp
SetLastPlayedAlways(st, g) ==
    IF g.timestamp # 0
      THEN [st EXCEPT !.records[g.opp_name].last_played = g.timestamp]
      ELSE st

\* slp_parser.py 422-423
SetLastPlayed(st, g) ==
    IF g.timestamp # 0 /\ g.timestamp > st.records[g.opp_name].last_played
      THEN [st EXCEPT !.records[g.opp_name].last_played = g.timestamp]
      ELSE st

\* slp_parser.py 451-452 and 454-455
NewStage(st, g, cell) ==
    IF cell = "rec_stage"
      THEN IF g.stage_id \in DOMAIN st.records[g.opp_name].stages THEN st
           ELSE [st EXCEPT !.records[g.opp_name].stages = Put(@, g.stage_id, <<0, 0>>)]
      ELSE IF g.stage_id \in DOMAIN st.overall.stages THEN st
           ELSE [st EXCEPT !.overall.stages = Put(@, g.stage_id, <<0, 0>>)]

\* one statement of _record_game: the store and the value held between the
\* read and the write of an increment
Execute(st, g, s, tmp) ==
    CASE s.op = "new_rec" -> [st |-> NewRecord(st, g.opp_name), tmp |-> tmp]
      [] s.op = "last_played" -> [st |-> SetLastPlayed(st, g), tmp |-> tmp]
      [] s.op = "new_stage" -> [st |-> NewStage(st, g, s.cell), tmp |-> tmp]
      [] s.op = "load" -> [st |-> st, tmp |-> Load(st, g, s.cell)]
      [] s.op = "store" -> [st |-> Store(st, g, s.cell, tmp + 1), tmp |-> 0]

RECURSIVE RunStatements(_, _, _, _)
RunStatements(st, g, stmts, tmp) ==
    IF stmts = <<>> THEN st
    ELSE LET r == Execute(st, g, Head(stmts), tmp)
         IN RunStatements(r.st, g, Tail(stmts), r.tmp)

\* slp_parser.py 405-456, run without another thread in between
RecordGame(st, g) == RunStatements(st, g, RecordGameStatements(g), 0)

\* what parse_completed_game returns for a file of the directory
\* (slp_parser.py 363-373), with its timestamp
ScanResult(pl, w, m, ts) ==
    [players |-> pl, winner_port |-> w, stage |-> 31,
     characters |-> [q \in DOMAIN pl |-> 10 + q],
     game_mode |-> m.game_mode, match_id |-> m.match_id,
     game_number |-> m.game_number, timestamp |-> ts]

NoResult == ScanResult(<<>>, NoInt, MatchMeta(None, 0), 0)

FileWonSecond == ScanResult((0 :> IdMe @@ 1 :> IdOp1), 0, MatchMeta(MidRanked, 2), 1)
FileWonFirst == ScanResult((0 :> IdMe @@ 1 :> IdOp1), 0, MatchMeta(MidRanked, 1), 1)
FileLost == ScanResult((0 :> IdMe @@ 1 :> IdOp1), 1, MatchMeta(MidUnranked, 1), 1)
FileUndecided == ScanResult((0 :> IdMe @@ 1 :> IdOp1), NoInt, MatchMeta(None, 0), 0)
FileOfOthers == ScanResult((0 :> IdOp1 @@ 1 :> IdOp2), 0, MatchMeta(None, 0), 1)

\* the replay directories an import is run on: one of NumFiles files, one
\* of SaveEvery files whose last file does not parse, and an empty one
Dirs == {"many", "unparsed", "empty"}

NumberOfFiles(dir) ==
    CASE dir = "many" -> NumFiles
      [] dir = "unparsed" -> SaveEvery
      [] OTHER -> 0

\* the result of parse_completed_game for file i (from 1) of the directory,
\* None for a file that does not parse
FileAt(dir, i) ==
    IF dir = "many"
      THEN IF i = 1 THEN << FileWonSecond >>
           ELSE IF i = 2 THEN << FileOfOthers >>
           ELSE IF i = SaveEvery THEN << FileLost >>
           ELSE IF i = SaveEvery + 1 THEN << FileWonFirst >>
           ELSE None
      ELSE IF i = 1 THEN << FileUndecided >> ELSE None

\* slp_parser.py 551-572: the game build_advanced_winrate records for a result
GameOf(result) ==
    LET my_port == MyPortOf(result.players)
        opp_port == OppPortOf(result.players)
        winner == result.winner_port
    IN GameArgs(result.players[opp_port],
                IF winner = my_port THEN "True"
                ELSE IF winner = opp_port THEN "False" ELSE "None",
                result.game_mode, result.stage,
                Get(result.characters, opp_port, 0),
                Get(result.characters, my_port, 0),
                result.timestamp)

\* the games of a match in the order the files were found
SortByArrival(games) == games

\* games.sort(key=lambda g: g["game_number"]) (slp_parser.py 471), a stable sort
RECURSIVE SortByGameNumber(_)
SortByGameNumber(games) ==
    IF games = <<>> THEN <<>>
    ELSE LET sorted == SortByGameNumber(SubSeq(games, 1, Len(games) - 1))
             g == games[Len(games)]
             k == Cardinality({i \in 1..Len(sorted) :
                                 sorted[i].game_number <= g.game_number})
         IN SubSeq(sorted, 1, k) \o << g >> \o SubSeq(sorted, k + 1, Len(sorted))

\* slp_parser.py 478-481 and 487-491: the first port of each kind
FirstOppName(players, opp_name) ==
    LET other == {q \in DOMAIN players : ~Contains(my_code, Lower(players[q]))}
    IN IF other = {} THEN opp_name
       ELSE players[CHOOSE q \in other : \A r \in other : q <= r]

FirstMyPort(players) ==
    LET mine == {q \in DOMAIN players : Contains(my_code, Lower(players[q]))}
    IN IF mine = {} THEN NoInt ELSE CHOOSE q \in mine : \A r \in mine : q <= r

\* slp_parser.py 473-500: the tally of one match, from game k of the sorted list
RECURSIVE Tally(_, _, _, _, _)
Tally(games, k, my_wins, opp_wins, opp_name) ==
    IF k > Len(games)
      THEN [my_wins |-> my_wins, opp_wins |-> opp_wins, opp_name |-> opp_name]
    ELSE
      LET g == games[k]
          name == FirstOppName(g.players, opp_name)
          my_port == FirstMyPort(g.players)
          mine == IF g.winner_port # NoInt /\ my_port # NoInt /\ g.winner_port = my_port
                    THEN my_wins + 1 ELSE my_wins
          theirs == IF g.winner_port # NoInt /\ my_port # NoInt /\ g.winner_port # my_port
                      THEN opp_wins + 1 ELSE opp_wins
      IN IF g.winner_port # NoInt /\ (mine >= 2 \/ theirs >= 2)
           THEN [my_wins |-> mine, opp_wins |-> theirs, opp_name |-> name]
           ELSE Tally(games, k + 1, mine, theirs, name)

\* slp_parser.py 471-500: the list is sorted once, then tallied
TallyOf(games) ==
    CHOOSE t \in { Tally(sorted, 1, 0, 0, None) : sorted \in { SortByGameNumber(games) } } :
        TRUE

\* the side a tally credits the set to: 1 the user, 2 the opponent, 0 nobody
\* (slp_parser.py 508-513, main.py 1048-1055)
SetIdx(my_wins, opp_wins) == IF my_wins >= 2 THEN 1 ELSE IF opp_wins >= 2 THEN 2 ELSE 0

\* main.py 1039-1055: _check_live_set, on the store the app holds
CheckLiveSet(st, sets, match_id, opponent_name) ==
    LET games == sets[match_id]
        my_wins == Cardinality({i \in 1..Len(games) : games[i].i_won = "True"})
        opp_wins == Cardinality({i \in 1..Len(games) : games[i].i_won = "False"})
        side == SetIdx(my_wins, opp_wins)
        st1 == NewRecord(st, opponent_name)
    IN IF side = 0 THEN [st |-> st1, sets |-> sets]
       ELSE [st |-> [st1 EXCEPT !.records[opponent_name].sets[side] = @ + 1,
                                !.overall.sets[side] = @ + 1],
             sets |-> Del(sets, match_id)]

\* the game-end reports the live tracker hands to _on_game_end
LiveReport(i_won, game_mode, match_id, game_number) ==
    [opponent_name |-> IdOp1, i_won |-> i_won, game_mode |-> game_mode, stage_id |-> 31,
     opp_char_id |-> 11, my_char_id |-> 10, match_id |-> match_id,
     game_number |-> game_number]

NoLiveReport == LiveReport("None", "unknown", None, 0)

LiveReports ==
    { LiveReport("True", "ranked", MidRanked, 1), LiveReport("None", "unknown", None, 0) }

\* the import thread before _import_replays starts it
ScanIdle ==
    [pc |-> "idle", dir |-> "empty", idx |-> 0, result |-> NoResult, game |-> NoGame,
     k |-> 0, tmp |-> 0, ranked_sets |-> <<>>, order |-> <<>>, todo |-> <<>>,
     tally |-> <<>>,
     progress |-> 0, shown |-> << 0, 0 >>, saves |-> 0]

NoCounts == [scan |-> 0, live |-> 0, scan_decided |-> 0, live_decided |-> 0]

Callback(name, game) == [name |-> name, game |-> game]

\* main.py 418-451: the app holds the store it loaded, here an empty one;
\* store 1 is the one build_advanced_winrate creates
ImportInit ==
    /\ stores = [s \in {0, 1} |-> EmptyStore]
    /\ app_store = 0
    /\ live_sets = <<>>
    /\ scan = ScanIdle
    /\ uiq = <<>>
    /\ persisted = <<>>
    /\ imported = FALSE
    /\ nlive = 0
    /\ made = NoCounts

\* main.py 863-899: _import_replays starts the thread; the watcher keeps running
ImportReplays ==
    /\ scan.pc = "idle"
    /\ \E dir \in Dirs : scan' = [scan EXCEPT !.pc = "begin", !.dir = dir]
    /\ UNCHANGED << stores, app_store, live_sets, uiq, persisted, imported, nlive, made >>
    /\ UNCHANGED << trackerVars, concVars, readerVars, outcomeVars, scoreVars >>

\* slp_parser.py 529-542: the fresh records and overall, the list of files
BuildBegin ==
    /\ scan.pc = "begin"
    /\ stores' = [stores EXCEPT ![1] = EmptyStore]
    /\ scan' = [scan EXCEPT !.pc = "loop", !.idx = 0, !.ranked_sets = <<>>,
                            !.order = <<>>]
    /\ UNCHANGED << app_store, live_sets, uiq, persisted, imported, nlive, made >>
    /\ UNCHANGED << trackerVars, concVars, readerVars, outcomeVars, scoreVars >>

\* a scan that reports no progress for a file it skips
ScanFileSilentOnSkip ==
    /\ scan.pc = "loop"
    /\ IF scan.idx < NumberOfFiles(scan.dir)
         THEN LET parsed == FileAt(scan.dir, scan.idx + 1)
                  skip == \/ parsed = None
                          \/ MyPortOf(parsed[1].players) = NoInt
                          \/ OppPortOf(parsed[1].players) = NoInt
                  shown == << scan.idx + 1, NumberOfFiles(scan.dir) >>
              IN scan' = IF skip
                           THEN [scan EXCEPT !.idx = @ + 1]
                           ELSE [scan EXCEPT !.progress = @ + 1, !.shown = shown,
                                             !.pc = "record",
                                             !.result = parsed[1],
                                             !.game = GameOf(parsed[1]),
                                             !.k = 1, !.tmp = 0]
         ELSE scan' = [scan EXCEPT !.pc = "sets",
                                   !.todo = scan.order]
    /\ UNCHANGED << stores, app_store, live_sets, uiq, persisted, imported, nlive, made >>
    /\ UNCHANGED << trackerVars, concVars, readerVars, outcomeVars, scoreVars >>

\* slp_parser.py 544-572: parse the next file, report progress (progress
\* counts the calls of progress_callback, shown holds the arguments of the
\* last one), and skip the file or hand its game to _record_game; after the
\* last file, 593
ScanFile ==
    /\ scan.pc = "loop"
    /\ IF scan.idx < NumberOfFiles(scan.dir)
         THEN LET parsed == FileAt(scan.dir, scan.idx + 1)
                  skip == \/ parsed = None
                          \/ MyPortOf(parsed[1].players) = NoInt
                          \/ OppPortOf(parsed[1].players) = NoInt
                  shown == << scan.idx + 1, NumberOfFiles(scan.dir) >>
              IN scan' = IF skip
                           THEN [scan EXCEPT !.progress = @ + 1, !.shown = shown,
                                             !.idx = @ + 1]
                           ELSE [scan EXCEPT !.progress = @ + 1, !.shown = shown,
                                             !.pc = "record",
                                             !.result = parsed[1],
                                             !.game = GameOf(parsed[1]),
                                             !.k = 1, !.tmp = 0]
         ELSE scan' = [scan EXCEPT !.pc = "sets",
                                   !.todo = scan.order]
    /\ UNCHANGED << stores, app_store, live_sets, uiq, persisted, imported, nlive, made >>
    /\ UNCHANGED << trackerVars, concVars, readerVars, outcomeVars, scoreVars >>

\* slp_parser.py 574-579: one statement of _record_game on the import's store
RecordGameStep ==
    /\ scan.pc = "record"
    /\ LET stmts == RecordGameStatements(scan.game)
           r == Execute(stores[1], scan.game, stmts[scan.k], scan.tmp)
           last == scan.k = Len(stmts)
       IN /\ stores' = [stores EXCEPT ![1] = r.st]
          /\ scan' = [scan EXCEPT !.tmp = r.tmp,
                                  !.k = IF last THEN 0 ELSE @ + 1,
                                  !.pc = IF last THEN "after" ELSE "record"]
          /\ made' = IF last
                       THEN [made EXCEPT !.scan = @ + 1,
                                         !.scan_decided =
                                            IF scan.game.i_won = "None" THEN @ ELSE @ + 1]
                       ELSE made
    /\ UNCHANGED << app_store, live_sets, uiq, persisted, imported, nlive >>
    /\ UNCHANGED << trackerVars, concVars, readerVars, outcomeVars, scoreVars >>

\* slp_parser.py 581-590: the game joins its ranked set, and every
\* SaveEvery-th file hands the store to the save callback, which queues
\* do_save on the UI thread (main.py 885-890)
AfterRecord ==
    /\ scan.pc = "after"
    /\ LET res == scan.result
           sets == IF res.game_mode = "ranked" /\ res.match_id # None
                     THEN Put(scan.ranked_sets, res.match_id,
                              Append(Get(scan.ranked_sets, res.match_id, <<>>), res))
                     ELSE scan.ranked_sets
           save == (scan.idx + 1) % SaveEvery = 0
           order == IF DOMAIN sets = DOMAIN scan.ranked_sets THEN scan.order
                    ELSE Append(scan.order, res.match_id)
       IN /\ scan' = [scan EXCEPT !.pc = "loop", !.idx = @ + 1, !.ranked_sets = sets,
                                  !.order = order,
                                  !.result = NoResult, !.game = NoGame,
                                  !.saves = IF save THEN @ + 1 ELSE @]
          /\ uiq' = IF save THEN Append(uiq, Callback("do_save", NoLiveReport)) ELSE uiq
    /\ UNCHANGED << stores, app_store, live_sets, persisted, imported, nlive, made >>
    /\ UNCHANGED << trackerVars, concVars, readerVars, outcomeVars, scoreVars >>

\* slp_parser.py 470-506: the tally of the next match and the opponent's record
SetsTally ==
    /\ scan.pc = "sets"
    /\ IF scan.todo = <<>>
         THEN /\ scan' = [scan EXCEPT !.pc = "finish"]
              /\ UNCHANGED stores
         ELSE LET t == TallyOf(scan.ranked_sets[Head(scan.todo)])
              IN IF t.opp_name = None
                   THEN /\ scan' = [scan EXCEPT !.todo = Tail(@)]
                        /\ UNCHANGED stores
                   ELSE /\ stores' = [stores EXCEPT ![1] = NewRecord(@, t.opp_name)]
                        /\ scan' = IF SetIdx(t.my_wins, t.opp_wins) = 0
                                     THEN [scan EXCEPT !.todo = Tail(@)]
                                     ELSE [scan EXCEPT !.pc = "sets_rec", !.tally = << t >>]
    /\ UNCHANGED << app_store, live_sets, uiq, persisted, imported, nlive, made >>
    /\ UNCHANGED << trackerVars, concVars, readerVars, outcomeVars, scoreVars >>

\* slp_parser.py 509 and 512: the set is credited in the opponent's record
SetsRecord ==
    /\ scan.pc = "sets_rec"
    /\ LET t == scan.tally[1]
       IN stores' = [stores EXCEPT
                       ![1].records[t.opp_name].sets[SetIdx(t.my_wins, t.opp_wins)] = @ + 1]
    /\ scan' = [scan EXCEPT !.pc = "sets_ov"]
    /\ UNCHANGED << app_store, live_sets, uiq, persisted, imported, nlive, made >>
    /\ UNCHANGED << trackerVars, concVars, readerVars, outcomeVars, scoreVars >>

\* slp_parser.py 510 and 513: the set is credited in the overall record
SetsOverall ==
    /\ scan.pc = "sets_ov"
    /\ LET t == scan.tally[1]
       IN stores' = [stores EXCEPT
                       ![1].overall.sets[SetIdx(t.my_wins, t.opp_wins)] = @ + 1]
    /\ scan' = [scan EXCEPT !.pc = "sets", !.todo = Tail(@), !.tally = <<>>]
    /\ UNCHANGED << app_store, live_sets, uiq, persisted, imported, nlive, made >>
    /\ UNCHANGED << trackerVars, concVars, readerVars, outcomeVars, scoreVars >>

\* slp_parser.py 596-599 and main.py 892-897: the final save and the hand-over
\* of the result to _on_import_done, both queued on the UI thread
BuildReturn ==
    /\ scan.pc = "finish"
    /\ scan' = [scan EXCEPT !.pc = "returned", !.saves = @ + 1]
    /\ uiq' = uiq \o << Callback("do_save", NoLiveReport), Callback("done", NoLiveReport) >>
    /\ UNCHANGED << stores, app_store, live_sets, persisted, imported, nlive, made >>
    /\ UNCHANGED << trackerVars, concVars, readerVars, outcomeVars, scoreVars >>

\* main.py 1009-1037: the watcher's thread reports a game end, and update
\* is queued on the UI thread
OnGameEnd ==
    /\ nlive < MaxLive
    /\ \E report \in LiveReports : uiq' = Append(uiq, Callback("update", report))
    /\ nlive' = nlive + 1
    /\ UNCHANGED << stores, app_store, live_sets, scan, persisted, imported, made >>
    /\ UNCHANGED << trackerVars, concVars, readerVars, outcomeVars, scoreVars >>

\* main.py 885-889: do_save makes the import's store the app's and persists it
DoSave ==
    /\ uiq # <<>> /\ Head(uiq).name = "do_save"
    /\ uiq' = Tail(uiq)
    /\ app_store' = 1
    /\ persisted' = << stores[1] >>
    /\ UNCHANGED << stores, live_sets, scan, imported, nlive, made >>
    /\ UNCHANGED << trackerVars, concVars, readerVars, outcomeVars, scoreVars >>

\* main.py 901-917: _on_import_done
OnImportDone ==
    /\ uiq # <<>> /\ Head(uiq).name = "done"
    /\ uiq' = Tail(uiq)
    /\ app_store' = 1
    /\ persisted' = << stores[1] >>
    /\ imported' = TRUE
    /\ UNCHANGED << stores, live_sets, scan, nlive, made >>
    /\ UNCHANGED << trackerVars, concVars, readerVars, outcomeVars, scoreVars >>

\* main.py 1013-1035: update records the game in the store the app holds,
\* follows the live set, and persists
Update ==
    /\ uiq # <<>> /\ Head(uiq).name = "update"
    /\ LET r == Head(uiq).game
           g == GameArgs(r.opponent_name, r.i_won, r.game_mode, r.stage_id,
                         r.opp_char_id, r.my_char_id, LiveNow)
           st1 == RecordGame(stores[app_store], g)
           in_set == r.game_mode = "ranked" /\ r.match_id # None
           sets1 == Put(live_sets, r.match_id,
                        Append(Get(live_sets, r.match_id, <<>>),
                               [i_won |-> r.i_won, game_number |-> r.game_number]))
           c == IF in_set THEN CheckLiveSet(st1, sets1, r.match_id, r.opponent_name)
                ELSE [st |-> st1, sets |-> live_sets]
           during == scan.pc # "idle"
       IN /\ stores' = [stores EXCEPT ![app_store] = c.st]
          /\ live_sets' = c.sets
          /\ persisted' = << c.st >>
          /\ made' = IF during
                       THEN [made EXCEPT !.live = @ + 1,
                                         !.live_decided =
                                            IF r.i_won = "None" THEN @ ELSE @ + 1]
                       ELSE made
    /\ uiq' = Tail(uiq)
    /\ UNCHANGED << app_store, scan, imported, nlive >>
    /\ UNCHANGED << trackerVars, concVars, readerVars, outcomeVars, scoreVars >>

ImportNext ==
    \/ ImportReplays \/ BuildBegin \/ ScanFile \/ RecordGameStep \/ AfterRecord
    \/ SetsTally \/ SetsRecord \/ SetsOverall \/ BuildReturn
    \/ OnGameEnd \/ DoSave \/ OnImportDone \/ Update

---------------------------------------------------------------------------
(* The Outcome Resolver: _determine_winner_port (slp_parser.py 239-287) on  *)
(* a parsed replay.  A replay is what the code reads of py-slippi's Game:   *)
(* start.players as the flags "slot holds a player with a type", end as     *)
(* None or its method and lras_initiator, and frames[-1] as None or, for    *)
(* each port, None or the leader's post-frame stocks and damage.            *)

\* the slots of game.start.players are the ports 0..LastPort
LastPort == 3

PortIds == 0..LastPort

\* slp_parser.py 254: NO_CONTEST
MethodNoContest == 7

\* slp_parser.py 261: TIME, GAME, CONCLUSIVE
MethodsNormal == {1, 2, 3}

\* an end method that is neither (INCONCLUSIVE of older replays)
MethodOther == 0

EndOf(method, lras_initiator) == [method |-> method, lras_initiator |-> lras_initiator]

PostOf(stocks, damage) == [stocks |-> stocks, damage |-> damage]

\* slp_parser.py 246-249
ActivePorts(g) == {i \in PortIds : g.players[i]}

\* the two active ports in the order of the list active_ports
FirstPort(active) == CHOOSE p \in active : \A q \in active : p <= q

SecondPort(active) == CHOOSE p \in active : \A q \in active : q <= p

\* a comparison that settles equal stocks by the higher damage
CompareFinalHigherDamage(p0, s0, d0, p1, s1, d1) ==
    IF s0 > s1 THEN p0
    ELSE IF s1 > s0 THEN p1
    ELSE IF d0 > d1 THEN p0
    ELSE IF d1 > d0 THEN p1
    ELSE NoInt

\* a comparison that gives a full tie to the first port
CompareFinalTieToFirst(p0, s0, d0, p1, s1, d1) ==
    IF s0 > s1 THEN p0
    ELSE IF s1 > s0 THEN p1
    ELSE IF d0 < d1 THEN p0
    ELSE IF d1 < d0 THEN p1
    ELSE p0

\* slp_parser.py 276-287
CompareFinal(p0, s0, d0, p1, s1, d1) ==
    IF s0 > s1 THEN p0
    ELSE IF s1 > s0 THEN p1
    ELSE IF d0 < d1 THEN p0
    ELSE IF d1 < d0 THEN p1
    ELSE NoInt

\* a no-contest rule that names the initiator of the quit
NoContestWinnerInitiator(active_ports, lras) ==
    IF lras # NoInt /\ lras \in active_ports THEN lras ELSE NoInt

\* slp_parser.py 254-258
NoContestWinner(active_ports, lras) ==
    IF lras # NoInt /\ lras \in active_ports
      THEN CHOOSE p \in active_ports : p # lras
      ELSE NoInt

\* a final-frame rule that lets a port without data lose
FinalFrameWinnerMissingLoses(active_ports, frames) ==
    IF frames = None THEN NoInt
    ELSE LET ports == frames[1]
             p0 == FirstPort(active_ports)
             p1 == SecondPort(active_ports)
         IN IF ports[p0] = None /\ ports[p1] = None THEN NoInt
            ELSE IF ports[p0] = None THEN p1
            ELSE IF ports[p1] = None THEN p0
            ELSE CompareFinal(p0, ports[p0][1].stocks, ports[p0][1].damage,
                              p1, ports[p1][1].stocks, ports[p1][1].damage)

\* slp_parser.py 262-287
FinalFrameWinner(active_ports, frames) ==
    IF frames = None THEN NoInt
    ELSE LET ports == frames[1]
             p0 == FirstPort(active_ports)
             p1 == SecondPort(active_ports)
         IN IF ports[p0] = None \/ ports[p1] = None THEN NoInt
            ELSE CompareFinal(p0, ports[p0][1].stocks, ports[p0][1].damage,
                              p1, ports[p1][1].stocks, ports[p1][1].damage)

\* slp_parser.py 239-287
DetermineWinnerPort(g) ==
    IF g.end = None THEN NoInt
    ELSE
      LET method == g.end[1].method
          lras == g.end[1].lras_initiator
          active_ports == ActivePorts(g)
      IN IF Cardinality(active_ports) # 2 THEN NoInt
         ELSE IF method = MethodNoContest THEN NoContestWinner(active_ports, lras)
         ELSE IF method \in MethodsNormal THEN FinalFrameWinner(active_ports, g.frames)
         ELSE NoInt

\* the ends a replay can have
Ends ==
    {None} \cup
    {<< EndOf(m, l) >> : m \in MethodsNormal \cup {MethodNoContest, MethodOther},
                         l \in {NoInt} \cup PortIds}

\* what the final frame holds for a port
PortData == {None} \cup {<< PostOf(s, d) >> : s \in 0..MaxStocks, d \in 0..MaxDamage}

\* the final frames of a replay with these active ports: none, or one whose
\* active ports each hold data or nothing (the code reads no other port)
FinalFrames(active) ==
    {None} \cup
    IF Cardinality(active) = 2
      THEN {<< [p \in PortIds |-> IF p = FirstPort(active) THEN a
                                   ELSE IF p = SecondPort(active) THEN b ELSE None] >> :
              a \in PortData, b \in PortData}
      ELSE {<< [p \in PortIds |-> None] >>}

ReplayOf(players, end, frames) == [players |-> players, end |-> end, frames |-> frames]

NoReplay == ReplayOf([p \in PortIds |-> FALSE], None, None)

Unresolved == << >>

OutcomeInit ==
    /\ replay = NoReplay
    /\ resolved = Unresolved

\* a replay is parsed (Game(filepath), slp_parser.py 307)
LoadReplay ==
    /\ replay = NoReplay
    /\ resolved = Unresolved
    /\ \E players \in [PortIds -> BOOLEAN], end \in Ends :
         \E frames \in FinalFrames({i \in PortIds : players[i]}) :
            replay' = ReplayOf(players, end, frames)
    /\ UNCHANGED << resolved, start_buf, fields >>
    /\ UNCHANGED << trackerVars, concVars, readerVars, importVars, scoreVars >>

\* one call of _determine_winner_port(game)
DetermineWinner ==
    /\ resolved = Unresolved
    /\ resolved' = << DetermineWinnerPort(replay) >>
    /\ UNCHANGED << replay, start_buf, fields >>
    /\ UNCHANGED << trackerVars, concVars, readerVars, importVars, scoreVars >>

OutcomeNext == LoadReplay \/ DetermineWinner

---------------------------------------------------------------------------
(* The Field Extractor: read_live_player_info, read_match_metadata and      *)
(* read_live_match_metadata (slp_parser.py 95-217) and read_game_mode of    *)
(* the basic overlay, on what the Frame Reader returned.  Offsets are those *)
(* of the code; buf[i] of the code is At(buf, i) here.                      *)

\* slp_parser.py 135-140
DisplayNameStart == 421
DisplayNameLen == 31
ConnectCodeStart == 545
ConnectCodeLen == 10
PlayerTypeOffset == 102
PlayerBlockStride == 36
\* slp_parser.py 166
CharOffset == 101
\* slp_parser.py 163: the type byte of an empty slot
EmptySlot == 3
\* slp_parser.py 46-48
MatchIdOffset == 702
MatchIdLen == 51
GameNumberOffset == 753

Letters ==
    << "a", "b", "c", "d", "e", "f", "g", "h", "i", "j", "k", "l", "m",
       "n", "o", "p", "q", "r", "s", "t", "u", "v", "w", "x", "y", "z" >>

Capitals ==
    << "A", "B", "C", "D", "E", "F", "G", "H", "I", "J", "K", "L", "M",
       "N", "O", "P", "Q", "R", "S", "T", "U", "V", "W", "X", "Y", "Z" >>

Digits == << "0", "1", "2", "3", "4", "5", "6", "7", "8", "9" >>

\* the character of a byte: the files here are written with the characters
\* below and with bytes above 127, which decode(..., errors="replace")
\* gives the replacement character for, written "?"
Chr(b) ==
    IF b \in 97..122 THEN Letters[b - 96]
    ELSE IF b \in 65..90 THEN Capitals[b - 64]
    ELSE IF b \in 48..57 THEN Digits[b - 47]
    ELSE IF b = 32 THEN " "
    ELSE IF b = 35 THEN "#"
    ELSE IF b = 40 THEN "("
    ELSE IF b = 41 THEN ")"
    ELSE IF b = 45 THEN "-"
    ELSE IF b = 46 THEN "."
    ELSE "?"

\* the byte a file holds for a character
Ord(c) == CHOOSE b \in 32..127 : Chr(b) = c

Bytes(s) == [i \in 1..Len(s) |-> Ord(s[i])]

\* raw.split(b"\x00")[0]
UpToNull(raw) ==
    LET nulls == {i \in 1..Len(raw) : raw[i] = 0}
    IN IF nulls = {} THEN raw
       ELSE SubSeq(raw, 1, (CHOOSE i \in nulls : \A j \in nulls : i <= j) - 1)

\* .decode("ascii", errors="replace") of the bytes before the first null
DecodeAscii(raw) == [i \in 1..Len(UpToNull(raw)) |-> Chr(UpToNull(raw)[i])]

\* slp_parser.py 143-145: cp932 and NFKC leave the characters above as they are
DecodeSlpString(raw) == DecodeAscii(raw)

\* .decode("utf-8") of the bytes before the first null: a byte above 127
\* that starts no valid sequence (the only kind the files here hold) raises
\* UnicodeDecodeError
DecodeUtf8(raw) ==
    [ok |-> \A i \in 1..Len(UpToNull(raw)) : UpToNull(raw)[i] < 128,
     text |-> DecodeAscii(raw)]

\* int.from_bytes(raw, "big")
RECURSIVE BigEndian(_)
BigEndian(raw) ==
    IF raw = <<>> THEN 0
    ELSE 256 * BigEndian(SubSeq(raw, 1, Len(raw) - 1)) + raw[Len(raw)]

TypeOffset(port) == PlayerTypeOffset + port * PlayerBlockStride

\* a slot of which only the bounds test is made
SlotSkippedOutsideOnly(buf, port) == TypeOffset(port) >= Len(buf)

\* slp_parser.py 160-164: the slot lies outside the buffer or is empty
SlotSkipped(buf, port) ==
    \/ TypeOffset(port) >= Len(buf)
    \/ At(buf, TypeOffset(port)) = EmptySlot

\* slp_parser.py 166-182: the dict of one slot
LivePlayer(buf, port) ==
    LET char_off == CharOffset + port * PlayerBlockStride
        dn_start == DisplayNameStart + port * DisplayNameLen
        dn_end == dn_start + DisplayNameLen
        cc_start == ConnectCodeStart + port * ConnectCodeLen
        cc_end == cc_start + ConnectCodeLen
    IN Player(port,
              IF dn_end <= Len(buf) THEN DecodeSlpString(Slice(buf, dn_start, dn_end))
                                    ELSE <<>>,
              IF cc_end <= Len(buf) THEN DecodeSlpString(Slice(buf, cc_start, cc_end))
                                    ELSE <<>>,
              IF char_off < Len(buf) THEN At(buf, char_off) ELSE NoInt)

\* slp_parser.py 158-182: the loop over the four ports, from port on
RECURSIVE LivePlayers(_, _)
LivePlayers(buf, port) ==
    IF port > LastPort THEN <<>>
    ELSE IF SlotSkipped(buf, port) THEN LivePlayers(buf, port + 1)
    ELSE << LivePlayer(buf, port) >> \o LivePlayers(buf, port + 1)

\* slp_parser.py 148-184: None when the reader returned None, and None for
\* an empty list (the empty sequence stands for both)
ReadLivePlayerInfo(r) ==
    IF r.kind # "buf" THEN None ELSE LivePlayers(r.buf, 0)

\* slp_parser.py 95-128 and 187-217 (the two functions do the same): None, or
\* one dict
ReadMatchMetadata(r) ==
    IF r.kind # "buf" THEN None
    ELSE IF MatchIdOffset + MatchIdLen > Len(r.buf) THEN None
    ELSE LET match_id ==
               DecodeAscii(Slice(r.buf, MatchIdOffset, MatchIdOffset + MatchIdLen))
             game_number ==
               IF GameNumberOffset + 4 <= Len(r.buf)
                 THEN BigEndian(Slice(r.buf, GameNumberOffset, GameNumberOffset + 4))
                 ELSE 0
         IN << MatchMeta(match_id, game_number) >>

\* slp_parser.py 346 and watcher.py 123-128: the mode the callers take
ModeOrUnknown(match_meta) ==
    IF match_meta = None THEN "unknown" ELSE match_meta[1].game_mode

\* winrate-overlay/slp_parser.py 85-105: read_game_mode of the basic overlay
ReadGameMode(r) ==
    IF r.kind # "buf" THEN "other"
    ELSE IF MatchIdOffset + MatchIdLen > Len(r.buf) THEN "other"
    ELSE LET session_id ==
               DecodeUtf8(Slice(r.buf, MatchIdOffset, MatchIdOffset + MatchIdLen))
         IN IF ~session_id.ok THEN "other"
            ELSE IF StartsWith(session_id.text,
                               <<"m", "o", "d", "e", ".", "r", "a", "n", "k", "e", "d">>)
              THEN "ranked"
            ELSE IF StartsWith(session_id.text,
                               <<"m", "o", "d", "e", ".", "u", "n", "r", "a", "n", "k",
                                 "e", "d">>)
              THEN "unranked"
            ELSE "other"

\* the bytes of a field of length len that holds text, padded with nulls
FieldByte(text, k) == IF k < Len(text) THEN text[k + 1] ELSE 0

\* a game-start buffer of a given length: the command byte, the four type
\* bytes, a character per slot, the names and codes of the slots 0 and 1,
\* the match id and the game number; every other byte is 0
GameStartBytes(len, types, match_id, game_number) ==
    [i \in 1..len |->
       LET o == i - 1
       IN IF o = 0 THEN CmdGameStart
          ELSE IF \E q \in PortIds : o = TypeOffset(q)
            THEN types[((o - PlayerTypeOffset) \div PlayerBlockStride) + 1]
          ELSE IF \E q \in PortIds : o = CharOffset + q * PlayerBlockStride
            THEN 10 + ((o - CharOffset) \div PlayerBlockStride)
          ELSE IF o >= DisplayNameStart /\ o < DisplayNameStart + DisplayNameLen
            THEN FieldByte(Bytes(NameBo), o - DisplayNameStart)
          ELSE IF o >= DisplayNameStart + DisplayNameLen
                  /\ o < DisplayNameStart + 2 * DisplayNameLen
            THEN FieldByte(Bytes(NameAl), o - DisplayNameStart - DisplayNameLen)
          ELSE IF o >= ConnectCodeStart /\ o < ConnectCodeStart + ConnectCodeLen
            THEN FieldByte(Bytes(CodeMe), o - ConnectCodeStart)
          ELSE IF o >= ConnectCodeStart + ConnectCodeLen
                  /\ o < ConnectCodeStart + 2 * ConnectCodeLen
            THEN FieldByte(Bytes(CodeOp1), o - ConnectCodeStart - ConnectCodeLen)
          ELSE IF o >= MatchIdOffset /\ o < MatchIdOffset + MatchIdLen
            THEN FieldByte(match_id, o - MatchIdOffset)
          ELSE IF o = GameNumberOffset + 3 THEN game_number
          ELSE 0]

\* the lengths a buffer is cut at: before and after each type byte, after
\* the codes, and around the match id and the game number
BufferLengths ==
    { 1, PlayerTypeOffset, PlayerTypeOffset + 1, TypeOffset(1) + 1, TypeOffset(LastPort) + 1,
      ConnectCodeStart + 2 * ConnectCodeLen, MatchIdOffset + MatchIdLen - 1,
      MatchIdOffset + MatchIdLen, GameNumberOffset + 4 }

\* type bytes: 0 a human, 3 an empty slot
SlotTypes == [1..4 -> {0, EmptySlot}]

\* the bytes of the match-id field: no id, a ranked and an unranked id, the
\* bare prefix, a cut prefix, the prefix after another character, the prefix
\* in capitals, and the prefix followed by a byte that is no character
MatchIdFields ==
    { <<>>, Bytes(MidRanked), Bytes(MidUnranked),
      Bytes(<<"m", "o", "d", "e", ".", "r", "a", "n", "k", "e", "d">>),
      Bytes(<<"m", "o", "d", "e", ".", "r", "a", "n", "k">>),
      Bytes(<<"x", "m", "o", "d", "e", ".", "r", "a", "n", "k", "e", "d">>),
      Bytes(<<"M", "O", "D", "E", ".", "R", "A", "N", "K", "E", "D">>),
      Bytes(<<"m", "o", "d", "e", ".", "r", "a", "n", "k", "e", "d">>) \o << 255 >> }

\* what the Frame Reader can hand to the extractor
StartBuffers ==
    { Unavailable }
    \cup { Buffer(GameStartBytes(len, types, match_id, 2)) :
             len \in BufferLengths, types \in SlotTypes, match_id \in MatchIdFields }

NotExtracted == [players |-> None, meta |-> None, mode |-> "none", basic_mode |-> "none"]

FieldsInit ==
    /\ start_buf = Unread
    /\ fields = NotExtracted

\* _read_game_start_buf returns for a file
LoadBuffer ==
    /\ \E r \in StartBuffers : start_buf' = r
    /\ fields' = NotExtracted
    /\ UNCHANGED << replay, resolved, trackerVars, concVars, readerVars, importVars, scoreVars >>

\* the extractors are called on it
ExtractFields ==
    /\ start_buf # Unread
    /\ fields = NotExtracted
    /\ fields' = [players |-> ReadLivePlayerInfo(start_buf),
                  meta |-> ReadMatchMetadata(start_buf),
                  mode |-> ModeOrUnknown(ReadMatchMetadata(start_buf)),
                  basic_mode |-> ReadGameMode(start_buf)]
    /\ UNCHANGED << start_buf, replay, resolved, trackerVars, concVars, readerVars,
                    importVars, scoreVars >>

FieldsNext == LoadBuffer \/ ExtractFields

---------------------------------------------------------------------------
(* The Aggregator called in sequence: every call of _record_game runs to    *)
(* its end before the next one starts.                                      *)

\* the games _record_game is called with: two opponents, each with a
\* character, two stages, the three modes, and timestamps "" < 1 < 2; a
\* game without an outcome reads neither the mode nor the stage
RecordArgs ==
    { GameArgs(o, w, m, s, IF o = IdOp1 THEN 11 ELSE 12, 10, ts) :
        o \in {IdOp1, IdOp2}, w \in {"True", "False"},
        m \in {"ranked", "unranked", "unknown"}, s \in {31, 32}, ts \in 0..LiveNow }
    \cup
    { GameArgs(o, "None", "unknown", 31, IF o = IdOp1 THEN 11 ELSE 12, 10, ts) :
        o \in {IdOp1, IdOp2}, ts \in 0..LiveNow }

RecordInit ==
    /\ agg = EmptyStore
    /\ history = <<>>

\* one call _record_game(records, overall, ...) (slp_parser.py 405-456)
RecordGameCall ==
    /\ Len(history) < MaxRecorded
    /\ \E g \in RecordArgs :
         /\ agg' = RecordGame(agg, g)
         /\ history' = Append(history, g)
    /\ UNCHANGED << phase, batch, open_sets, ends, handled >>
    /\ UNCHANGED << trackerVars, concVars, readerVars, importVars, outcomeVars >>

RecordNext == RecordGameCall

---------------------------------------------------------------------------
(* Scoring in sequence: a bulk import (the loop of build_advanced_winrate,  *)
(* then _compute_sets) followed by the game ends the live tracker reports,  *)
(* each on the replay it parsed, every call running to its end.             *)

\* a replay file as parse_completed_game reads it: the replay of the
\* Outcome Resolver, the player id of each port, the match metadata (None
\* or one dict) and the timestamp
ReplayFile(players, ids, end, frames, meta, ts) ==
    [players |-> players, ids |-> ids, end |-> end, frames |-> frames,
     meta |-> meta, timestamp |-> ts]

\* parse_completed_game without the test of the number of active ports:
\* the two lowest active ports are taken for the players
ParseCompletedGameAnyPorts(f) ==
    IF f = None \/ f[1].end = None \/ Cardinality(ActivePorts(f[1])) < 2 THEN None
    ELSE LET g == f[1]
             p0 == FirstPort(ActivePorts(g))
             p1 == FirstPort(ActivePorts(g) \ {p0})
             m == IF g.meta = None THEN MatchMeta(None, 0) ELSE g.meta[1]
         IN << ScanResult((p0 :> g.ids[p0] @@ p1 :> g.ids[p1]),
                          IF g.end[1].method \in MethodsNormal
                            THEN FinalFrameWinner({p0, p1}, g.frames)
                            ELSE NoInt,
                          m, g.timestamp) >>

\* slp_parser.py 290-373: None for a file that does not parse (None here),
\* has no end or is not a game of two active ports
ParseCompletedGame(f) ==
    IF f = None \/ f[1].end = None \/ Cardinality(ActivePorts(f[1])) # 2 THEN None
    ELSE LET g == f[1]
             m == IF g.meta = None THEN MatchMeta(None, 0) ELSE g.meta[1]
         IN << ScanResult([p \in ActivePorts(g) |-> g.ids[p]],
                          DetermineWinnerPort(g), m, g.timestamp) >>

\* the outcomes of a game between the user on port 0 and an opponent on
\* port 1: the user has the stock left, the user quit, no normal end
EndWon == << EndOf(2, NoInt) >>
EndLost == << EndOf(MethodNoContest, 0) >>
EndOpen == << EndOf(MethodOther, NoInt) >>

FrameWon ==
    << [p \in PortIds |-> IF p = 0 THEN << PostOf(1, 0) >>
                          ELSE IF p = 1 THEN << PostOf(0, 0) >> ELSE None] >>

TwoPlayers == [p \in PortIds |-> p \in {0, 1}]

GameFile(opp, end, meta) ==
    << ReplayFile(TwoPlayers, (0 :> IdMe @@ 1 :> opp), end,
                  IF end = EndWon THEN FrameWon ELSE None, meta, 1) >>

\* a game of three active ports that ends with the user ahead, and a game of
\* one
DoublesFile ==
    << ReplayFile([p \in PortIds |-> p \in {0, 1, 2}],
                  (0 :> IdMe @@ 1 :> IdOp1 @@ 2 :> IdOp2), EndWon, FrameWon,
                  << MatchMeta(MidRanked, 1) >>, 1) >>

SoloFile ==
    << ReplayFile([p \in PortIds |-> p = 0], (0 :> IdMe), EndWon, FrameWon, None, 1) >>

\* the files of a replay directory: games of one ranked match (games 1, 3
\* and 4 won, games 1 and 2 lost, a game 1 without a winner), an unranked
\* game against another opponent, and games that are not one against one
SetFiles ==
    { GameFile(IdOp1, EndWon, << MatchMeta(MidRanked, n) >>) : n \in {1, 3, 4} }
    \cup { GameFile(IdOp1, EndLost, << MatchMeta(MidRanked, n) >>) : n \in {1, 2} }
    \cup { GameFile(IdOp1, EndOpen, << MatchMeta(MidRanked, 1) >>),
           GameFile(IdOp2, EndWon, << MatchMeta(MidUnranked, 1) >>),
           DoublesFile, SoloFile }

\* what the tracker holds for the game it finalizes (watcher.py 163-169)
Tracked ==
    [opponent |-> IdOp1, opp_char |-> 11, my_char |-> 10, game_mode |-> "ranked",
     match_id |-> MidRanked, game_number |-> 1]

\* the replays the tracker finalizes
LiveFiles ==
    { GameFile(IdOp1, EndWon, << MatchMeta(MidRanked, 1) >>),
      GameFile(IdOp1, EndLost, << MatchMeta(MidRanked, 1) >>),
      GameFile(IdOp1, EndOpen, << MatchMeta(MidRanked, 1) >>),
      DoublesFile }

\* watcher.py 177-206: the arguments _finalize_game hands to on_game_end
GameEndArgs(t, result) ==
    IF result = None
      THEN [opponent_name |-> t.opponent, i_won |-> "None", game_mode |-> t.game_mode,
            stage_id |-> 0, opp_char_id |-> OrZero(t.opp_char),
            my_char_id |-> OrZero(t.my_char), match_id |-> t.match_id,
            game_number |-> t.game_number]
      ELSE LET res == result[1]
               my_port == MyPortOf(res.players)
               opp_port == OppPortOf(res.players)
           IN [opponent_name |-> t.opponent,
               i_won |-> IF my_port # NoInt /\ res.winner_port # NoInt
                           THEN (IF res.winner_port = my_port THEN "True" ELSE "False")
                           ELSE "None",
               game_mode |-> res.game_mode, stage_id |-> res.stage,
               opp_char_id |-> OrZero(Get(res.characters, opp_port, OrZero(t.opp_char))),
               my_char_id |-> OrZero(Get(res.characters, my_port, OrZero(t.my_char))),
               match_id |-> res.match_id, game_number |-> res.game_number]

\* main.py 1013-1030: update, on a store and the live sets
ApplyGameEnd(st, sets, r) ==
    LET st1 == RecordGame(st, GameArgs(r.opponent_name, r.i_won, r.game_mode, r.stage_id,
                                       r.opp_char_id, r.my_char_id, LiveNow))
    IN IF r.game_mode = "ranked" /\ r.match_id # None
         THEN CheckLiveSet(st1,
                           Put(sets, r.match_id,
                               Append(Get(sets, r.match_id, <<>>),
                                      [i_won |-> r.i_won, game_number |-> r.game_number])),
                           r.match_id, r.opponent_name)
         ELSE [st |-> st1, sets |-> sets]

\* a credit that forgets the overall record
CreditSetRecordOnly(st, opp_name, side) ==
    IF side = 0 THEN st ELSE [st EXCEPT !.records[opp_name].sets[side] = @ + 1]

\* slp_parser.py 508-513
CreditSet(st, opp_name, side) ==
    IF side = 0 THEN st
    ELSE [st EXCEPT !.records[opp_name].sets[side] = @ + 1, !.overall.sets[side] = @ + 1]

\* slp_parser.py 470-513: _compute_sets over the match ids in their order
RECURSIVE ComputeSets(_, _, _)
ComputeSets(st, set_games, order) ==
    IF order = <<>> THEN st
    ELSE LET t == TallyOf(set_games[Head(order)])
             st1 == IF t.opp_name = None THEN st
                    ELSE CreditSet(NewRecord(st, t.opp_name), t.opp_name,
                                   SetIdx(t.my_wins, t.opp_wins))
         IN ComputeSets(st1, set_games, Tail(order))

NoBatch == [sets |-> <<>>, order |-> <<>>]

SetsInit ==
    /\ phase = "bulk"
    /\ batch = NoBatch
    /\ open_sets = <<>>
    /\ ends = <<>>
    /\ handled = <<>>

\* slp_parser.py 544-586: one turn of the loop of build_advanced_winrate
BulkFile ==
    /\ phase = "bulk"
    /\ Len(handled) < MaxFiles
    /\ \E f \in SetFiles :
         LET result == ParseCompletedGame(f)
             skip == \/ result = None
                     \/ MyPortOf(result[1].players) = NoInt
                     \/ OppPortOf(result[1].players) = NoInt
             res == result[1]
             in_set == res.game_mode = "ranked" /\ res.match_id # None
         IN /\ handled' = Append(handled, f)
            /\ agg' = IF skip THEN agg ELSE RecordGame(agg, GameOf(res))
            /\ batch' =
                 IF skip \/ ~in_set THEN batch
                 ELSE [sets |-> Put(batch.sets, res.match_id,
                                    Append(Get(batch.sets, res.match_id, <<>>), res)),
                       order |-> IF res.match_id \in DOMAIN batch.sets THEN batch.order
                                 ELSE Append(batch.order, res.match_id)]
    /\ UNCHANGED << phase, open_sets, ends, history >>
    /\ UNCHANGED << trackerVars, concVars, readerVars, importVars, outcomeVars >>

\* slp_parser.py 593-599: _compute_sets, and the store is returned
BulkSets ==
    /\ phase = "bulk"
    /\ agg' = ComputeSets(agg, batch.sets, batch.order)
    /\ phase' = "built"
    /\ UNCHANGED << batch, handled, open_sets, ends, history >>
    /\ UNCHANGED << trackerVars, concVars, readerVars, importVars, outcomeVars >>

\* main.py 901-917: _on_import_done takes the store and starts the tracker
ImportDone ==
    /\ phase = "built"
    /\ phase' = "live"
    /\ batch' = NoBatch
    /\ handled' = <<>>
    /\ UNCHANGED << agg, open_sets, ends, history >>
    /\ UNCHANGED << trackerVars, concVars, readerVars, importVars, outcomeVars >>

\* watcher.py 162-207 and main.py 1009-1037: the tracker finalizes a game
\* and the app scores the report
LiveEnd ==
    /\ phase = "live"
    /\ Len(ends) < MaxEnds
    /\ \E f \in LiveFiles :
         LET r == GameEndArgs(Tracked, ParseCompletedGame(f))
             c == ApplyGameEnd(agg, open_sets, r)
         IN /\ agg' = c.st
            /\ open_sets' = c.sets
            /\ ends' = Append(ends, r)
            /\ handled' = << f >>
    /\ UNCHANGED << phase, batch, history >>
    /\ UNCHANGED << trackerVars, concVars, readerVars, importVars, outcomeVars >>

SetsNext == BulkFile \/ BulkSets \/ ImportDone \/ LiveEnd

---------------------------------------------------------------------------
(* Specifications *)

Init ==
    /\ TrackerInit /\ ReaderInit /\ ImportInit /\ OutcomeInit /\ FieldsInit
    /\ RecordInit /\ SetsInit

Next == Start \/ Stop \/ OnCreated \/ OnModified \/ Poll

Spec == Init /\ [][Next]_vars

\* the poll thread (watcher.py 81, 141-160) keeps taking turns, one a
\* second, for as long as the tracker runs
SpecLive == Spec /\ WF_vars(Poll)

SpecReader == Init /\ [][ReaderNext]_vars

SpecImport == Init /\ [][ImportNext]_vars

\* the import thread (main.py 879-899) is an operating-system thread that
\* keeps being scheduled until run() returns
ScanThread ==
    \/ BuildBegin \/ ScanFile \/ RecordGameStep \/ AfterRecord
    \/ SetsTally \/ SetsRecord \/ SetsOverall \/ BuildReturn

SpecImportFair == SpecImport /\ WF_vars(ScanThread)

SpecOutcome == Init /\ [][OutcomeNext]_vars

SpecFields == Init /\ [][FieldsNext]_vars

SpecRecord == Init /\ [][RecordNext]_vars

SpecSets == Init /\ [][SetsNext]_vars

---------------------------------------------------------------------------
(* The live tracker, one statement per step: the poll thread, the observer  *)
(* thread and the timer threads share the SlpWatcher fields and take no     *)
(* lock (watcher.py has none), so a thread can be scheduled between any two *)
(* statements of another.                                                   *)

trackerFields ==
    << tracked_file, tracked_opponent, tracked_opp_char, tracked_my_char,
       tracked_game_mode, tracked_match_id, tracked_game_number >>

\* watcher.py 70-84: start() creates the observer and the poll thread
ConcStart ==
    /\ ~observer
    /\ poll.pc = "new"
    /\ running' = TRUE
    /\ observer' = TRUE
    /\ poll' = [poll EXCEPT !.pc = "loop"]
    /\ UNCHANGED << trackerState, polled, emitted, nreports, cb, nevents, restVars >>

\* watcher.py 86-91
ConcStop ==
    /\ running \/ observer
    /\ running' = FALSE
    /\ observer' = FALSE
    /\ UNCHANGED << trackerState, polled, emitted, nreports, concVars, restVars >>

\* watcher.py 215-217: on_created, on the observer thread, starts a timer
\* thread that will run _on_new_file(path)
CreatedEvent ==
    /\ observer
    /\ cb[0].pc = "idle"
    /\ nreports < ConcMaxReports
    /\ nevents < ConcMaxEvents
    /\ \E path \in Paths, t \in CbThreads \ {0} :
         /\ cb[t].pc = "idle"
         /\ cb' = [cb EXCEPT ![t] = [CbIdle EXCEPT !.pc = "read", !.path = path]]
    /\ nevents' = nevents + 1
    /\ UNCHANGED << trackerVars, poll, restVars >>

\* watcher.py 219-222: on_modified, on the observer thread, reads
\* _tracked_file and calls _on_new_file(path)
ModifiedEvent ==
    /\ observer
    /\ cb[0].pc = "idle"
    /\ nreports < ConcMaxReports
    /\ nevents < ConcMaxEvents
    /\ \E path \in Paths :
         /\ EndsWith(Lower(path), DotSlp)
         /\ tracked_file = None
         /\ cb' = [cb EXCEPT ![0] = [CbIdle EXCEPT !.pc = "read", !.path = path]]
    /\ nevents' = nevents + 1
    /\ UNCHANGED << trackerVars, poll, restVars >>

\* watcher.py 94-113: the path test, read_live_player_info and the loop over
\* the slots touch no field of the watcher; line 113 then reads _tracked_file
NewFileRead(t) ==
    /\ cb[t].pc = "read"
    /\ \/ /\ ~EndsWith(Lower(cb[t].path), DotSlp)
          /\ cb' = [cb EXCEPT ![t] = CbIdle]
       \/ /\ EndsWith(Lower(cb[t].path), DotSlp)
          /\ \E players \in ConcPlayerReads :
               cb' = [cb EXCEPT ![t] =
                        IF players = None THEN CbIdle
                        ELSE IF Identify(players).opp_name # None
                                /\ cb[t].path # tracked_file
                          THEN [@ EXCEPT !.pc = "set_file", !.who = Identify(players)]
                          ELSE CbIdle]
    /\ UNCHANGED << trackerVars, poll, nevents, restVars >>

\* watcher.py 114: self._tracked_file = path
NewFileSetFile(t) ==
    /\ cb[t].pc = "set_file"
    /\ tracked_file' = cb[t].path
    /\ polled' = IF cb[t].path = tracked_file THEN polled ELSE [q \in SlpPaths |-> <<>>]
    /\ cb' = [cb EXCEPT ![t].pc = "set_opponent"]
    /\ UNCHANGED << tracked_opponent, tracked_opp_char, tracked_my_char,
                    tracked_game_mode, tracked_match_id, tracked_game_number,
                    last_size, stable_count, running, observer, emitted, nreports, poll, nevents, restVars >>

\* watcher.py 115-117: self._tracked_opponent, _tracked_opp_char, _tracked_my_char
NewFileSetOpponent(t) ==
    /\ cb[t].pc = "set_opponent"
    /\ tracked_opponent' = cb[t].who.opp_name
    /\ tracked_opp_char' = cb[t].who.opp_char
    /\ tracked_my_char' = cb[t].who.my_char
    /\ cb' = [cb EXCEPT ![t].pc = "set_size"]
    /\ UNCHANGED << tracked_file, tracked_game_mode, tracked_match_id,
                    tracked_game_number, last_size, stable_count, running, observer,
                    polled, emitted, nreports, poll, nevents, restVars >>

\* watcher.py 118: self._last_size = 0
NewFileSetSize(t) ==
    /\ cb[t].pc = "set_size"
    /\ last_size' = 0
    /\ cb' = [cb EXCEPT ![t].pc = "set_count"]
    /\ UNCHANGED << trackerFields, stable_count, running, observer, polled, emitted,
                    nreports, poll, nevents, restVars >>

\* watcher.py 119: self._stable_count = 0
NewFileSetCount(t) ==
    /\ cb[t].pc = "set_count"
    /\ stable_count' = 0
    /\ cb' = [cb EXCEPT ![t].pc = "set_meta"]
    /\ UNCHANGED << trackerFields, last_size, running, observer, polled, emitted,
                    nreports, poll, nevents, restVars >>

\* watcher.py 122-130: read_live_match_metadata and the three metadata fields
NewFileSetMeta(t) ==
    /\ cb[t].pc = "set_meta"
    /\ \E match_meta \in ConcMetaReads :
         /\ tracked_game_mode' = IF match_meta # None THEN match_meta[1].game_mode
                                                      ELSE "unknown"
         /\ tracked_match_id' = IF match_meta # None THEN match_meta[1].match_id ELSE None
         /\ tracked_game_number' = IF match_meta # None THEN match_meta[1].game_number
                                                        ELSE 0
    /\ cb' = [cb EXCEPT ![t].pc = "report"]
    /\ UNCHANGED << tracked_file, tracked_opponent, tracked_opp_char, tracked_my_char,
                    last_size, stable_count, running, observer, polled, emitted,
                    nreports, poll, nevents, restVars >>

\* watcher.py 132-139: on_game_start(opp_name, self._tracked_game_mode, ...)
NewFileReport(t) ==
    /\ cb[t].pc = "report"
    /\ emitted' = Report("game_start", cb[t].who.opp_name, "None", tracked_game_mode, 0,
                         cb[t].who.opp_char, cb[t].who.my_char, None, 0, cb[t].path)
    /\ nreports' = nreports + 1
    /\ cb' = [cb EXCEPT ![t] = CbIdle]
    /\ UNCHANGED << trackerState, running, observer, polled, poll, nevents, restVars >>

NewFileStep ==
    \E t \in CbThreads :
        \/ NewFileRead(t)
        \/ NewFileSetFile(t)
        \/ NewFileSetOpponent(t)
        \/ NewFileSetSize(t)
        \/ NewFileSetCount(t)
        \/ NewFileSetMeta(t)
        \/ NewFileReport(t)

PollGoto(pc) == poll' = [poll EXCEPT !.pc = pc]

\* watcher.py 143-144: while self._running, and the sleep
PollLoop ==
    /\ poll.pc = "loop"
    /\ PollGoto(IF running THEN "check" ELSE "exit")
    /\ UNCHANGED << trackerVars, cb, nevents, restVars >>

\* watcher.py 145-146: if self._tracked_file is None: continue
PollCheck ==
    /\ poll.pc = "check"
    /\ PollGoto(IF tracked_file = None THEN "loop" ELSE "getsize")
    /\ UNCHANGED << trackerVars, cb, nevents, restVars >>

\* watcher.py 148-151: os.path.getsize(self._tracked_file); TypeError on None
\* cannot happen here, only the poll thread stores None
PollGetsize ==
    /\ poll.pc = "getsize"
    /\ tracked_file # None
    /\ nreports < ConcMaxReports
    /\ stable_count < ConcMaxStable
    /\ \E size \in {NoInt} \cup (0..ConcMaxSize) :
         IF size = NoInt
           THEN /\ PollGoto("loop")
                /\ UNCHANGED polled
           ELSE /\ poll' = [poll EXCEPT !.pc = "compare", !.size = size]
                /\ polled' = [polled EXCEPT ![tracked_file] = Observe(@, size)]
    /\ UNCHANGED << trackerState, running, observer, emitted, nreports, cb, nevents, restVars >>

\* watcher.py 153: if size == self._last_size
PollCompare ==
    /\ poll.pc = "compare"
    /\ PollGoto(IF poll.size = last_size THEN "load_count" ELSE "reset_count")
    /\ UNCHANGED << trackerVars, cb, nevents, restVars >>

\* watcher.py 154: self._stable_count += 1 loads the field ...
PollLoadCount ==
    /\ poll.pc = "load_count"
    /\ poll' = [poll EXCEPT !.pc = "store_count", !.count = stable_count]
    /\ UNCHANGED << trackerVars, cb, nevents, restVars >>

\* ... and stores the sum
PollStoreCount ==
    /\ poll.pc = "store_count"
    /\ stable_count' = NextStable(poll.size, poll.size, poll.count)
    /\ PollGoto("test")
    /\ UNCHANGED << trackerFields, last_size, running, observer, polled, emitted,
                    nreports, cb, nevents, restVars >>

\* watcher.py 156: self._stable_count = 0
PollResetCount ==
    /\ poll.pc = "reset_count"
    /\ stable_count' = 0
    /\ PollGoto("store_size")
    /\ UNCHANGED << trackerFields, last_size, running, observer, polled, emitted,
                    nreports, cb, nevents, restVars >>

\* watcher.py 157: self._last_size = size
PollStoreSize ==
    /\ poll.pc = "store_size"
    /\ last_size' = poll.size
    /\ PollGoto("test")
    /\ UNCHANGED << trackerFields, stable_count, running, observer, polled, emitted,
                    nreports, cb, nevents, restVars >>

\* watcher.py 159: if self._stable_count >= 3 and self._tracked_opponent
PollTest ==
    /\ poll.pc = "test"
    /\ poll' = IF stable_count >= StableThreshold /\ tracked_opponent # None
                 THEN [poll EXCEPT !.pc = "take_file"]
                 ELSE [PollNew EXCEPT !.pc = "loop"]
    /\ UNCHANGED << trackerVars, cb, nevents, restVars >>

\* watcher.py 163: filepath = self._tracked_file
FinalizeTakeFile ==
    /\ poll.pc = "take_file"
    /\ poll' = [poll EXCEPT !.pc = "take_opponent", !.filepath = tracked_file]
    /\ UNCHANGED << trackerVars, cb, nevents, restVars >>

\* watcher.py 164-169: opponent = self._tracked_opponent and the other locals
FinalizeTakeOpponent ==
    /\ poll.pc = "take_opponent"
    /\ poll' = [poll EXCEPT !.pc = "clear_file",
                            !.opponent = tracked_opponent,
                            !.opp_char = tracked_opp_char,
                            !.my_char = tracked_my_char,
                            !.game_mode = tracked_game_mode,
                            !.match_id = tracked_match_id,
                            !.game_number = tracked_game_number]
    /\ UNCHANGED << trackerVars, cb, nevents, restVars >>

\* watcher.py 171: self._tracked_file = None
FinalizeClearFile ==
    /\ poll.pc = "clear_file"
    /\ tracked_file' = None
    /\ PollGoto("clear_opponent")
    /\ UNCHANGED << tracked_opponent, tracked_opp_char, tracked_my_char,
                    tracked_game_mode, tracked_match_id, tracked_game_number,
                    last_size, stable_count, running, observer, polled, emitted,
                    nreports, cb, nevents, restVars >>

\* watcher.py 172-174: self._tracked_opponent = None and the two characters
FinalizeClearOpponent ==
    /\ poll.pc = "clear_opponent"
    /\ tracked_opponent' = None
    /\ tracked_opp_char' = NoInt
    /\ tracked_my_char' = NoInt
    /\ PollGoto("clear_count")
    /\ UNCHANGED << tracked_file, tracked_game_mode, tracked_match_id,
                    tracked_game_number, last_size, stable_count, running, observer,
                    polled, emitted, nreports, cb, nevents, restVars >>

\* watcher.py 175: self._stable_count = 0
FinalizeClearCount ==
    /\ poll.pc = "clear_count"
    /\ stable_count' = 0
    /\ PollGoto("parse")
    /\ UNCHANGED << trackerFields, last_size, running, observer, polled, emitted,
                    nreports, cb, nevents, restVars >>

\* watcher.py 177-207: the early return, parse_completed_game and on_game_end,
\* all on the locals taken above
FinalizeReport ==
    /\ poll.pc = "parse"
    /\ IF poll.filepath = None \/ poll.opponent = None
         THEN UNCHANGED << emitted, nreports >>
         ELSE \E result \in ConcParseResults :
                LET res == result[1]
                    my_port == MyPortOf(res.players)
                    opp_port == OppPortOf(res.players)
                    i_won == IF result # None /\ my_port # NoInt /\ res.winner_port # NoInt
                               THEN (IF res.winner_port = my_port THEN "True" ELSE "False")
                               ELSE "None"
                    opp_char == IF result = None THEN poll.opp_char
                                ELSE IF opp_port \in DOMAIN res.characters
                                       THEN res.characters[opp_port]
                                       ELSE OrZero(poll.opp_char)
                    my_char == IF result = None THEN poll.my_char
                               ELSE IF my_port \in DOMAIN res.characters
                                      THEN res.characters[my_port]
                                      ELSE OrZero(poll.my_char)
                IN /\ emitted' =
                        Report("game_end", poll.opponent, i_won,
                               IF result # None THEN res.game_mode ELSE poll.game_mode,
                               IF result # None THEN res.stage ELSE 0,
                               OrZero(opp_char), OrZero(my_char),
                               IF result # None THEN res.match_id ELSE poll.match_id,
                               IF result # None THEN res.game_number
                                                ELSE poll.game_number,
                               poll.filepath)
                   /\ nreports' = nreports + 1
    /\ poll' = [PollNew EXCEPT !.pc = "loop"]
    /\ UNCHANGED << trackerState, running, observer, polled, cb, nevents, restVars >>

PollStep ==
    \/ PollLoop
    \/ PollCheck
    \/ PollGetsize
    \/ PollCompare
    \/ PollLoadCount
    \/ PollStoreCount
    \/ PollResetCount
    \/ PollStoreSize
    \/ PollTest
    \/ FinalizeTakeFile
    \/ FinalizeTakeOpponent
    \/ FinalizeClearFile
    \/ FinalizeClearOpponent
    \/ FinalizeClearCount
    \/ FinalizeReport

ConcNext == ConcStart \/ ConcStop \/ CreatedEvent \/ ModifiedEvent \/ NewFileStep \/ PollStep

SpecConc == Init /\ [][ConcNext]_vars

---------------------------------------------------------------------------
(* Claims about the live tracker, one handler per step (Spec) *)

\* C1 (as claimed): while a file is tracked, _on_new_file for a different path
\* is ignored: the tracked path, the opponent, last_size and stable_count stay
\* and no report is emitted.
C1_SecondFileIgnored ==
    [][\A path \in Paths :
         (observer /\ tracked_file # None /\ path # tracked_file /\ OnNewFile(path))
            => UNCHANGED << tracked_file, tracked_opponent, last_size, stable_count,
                            nreports >>]_vars

\* the sizes the stable count is counted over: the 0 that tracking starts
\* with (watcher.py 118) and the sizes polled since
Hist(seen) == IF Len(seen) > StableThreshold THEN seen ELSE <<0>> \o seen

RECURSIVE TrailingRun(_)
TrailingRun(s) ==
    IF Len(s) <= 1 THEN Len(s)
    ELSE IF s[Len(s)] = s[Len(s) - 1]
           THEN 1 + TrailingRun(SubSeq(s, 1, Len(s) - 1))
           ELSE 1

\* a step in which a poll read the size of the tracked file
PollRead == tracked_file # None /\ polled' # polled /\ polled'[tracked_file] # <<>>

GameEndEmitted == nreports' # nreports /\ emitted'.kind = "game_end"

C2_Counting ==
    tracked_file # None =>
        /\ last_size = Hist(polled[tracked_file])[Len(Hist(polled[tracked_file]))]
        /\ stable_count = TrailingRun(Hist(polled[tracked_file])) - 1
        /\ stable_count < StableThreshold

C2_PollEffect ==
    PollRead =>
        LET size == polled'[tracked_file][Len(polled'[tracked_file])]
        IN IF size = last_size
             THEN /\ last_size' = last_size
                  /\ \/ stable_count' = stable_count + 1 /\ tracked_file' = tracked_file
                     \/ stable_count + 1 = StableThreshold /\ tracked_file' = None
             ELSE /\ last_size' = size
                  /\ stable_count' = 0
                  /\ tracked_file' = tracked_file

C2_FinalizeIff ==
    GameEndEmitted <=> (PollRead /\ TrailingRun(Hist(polled'[tracked_file])) = StableThreshold + 1)

\* C2: a poll that reads the size it read before adds one to stable_count, a
\* poll that reads another size stores it and resets the count; the game-end
\* report is emitted at the poll that makes the count 3, at no other step, and
\* once (the tracker is idle afterwards).
C2_StablePolls ==
    /\ []C2_Counting
    /\ [][C2_PollEffect /\ C2_FinalizeIff /\ (GameEndEmitted => tracked_file' = None)]_vars

\* sizes 1, 1, 1, 1 after tracking started: finalized at the fourth poll
C2_Witness ==
    /\ emitted.kind = "game_end"
    /\ emitted.file = PathA
    /\ polled[PathA] = <<1, 1, 1, 1>>
    /\ tracked_file = None

\* the user's code in one slot and exactly one other slot with a non-empty code
SelfVsOne(players) ==
    LET coded == {i \in 1..Len(players) : players[i].connect_code # None}
        mine == {i \in coded : Contains(my_code, Lower(players[i].connect_code))}
    IN Cardinality(mine) = 1 /\ Cardinality(coded \ mine) = 1

\* C3 (as claimed): a new-file event makes an idle tracker track the file only
\* if the slots hold the user's code and exactly one other coded slot.
C3_StartOnlySelfVsOne ==
    [][\A path \in Paths, players \in PlayerReads :
         (observer /\ tracked_file = None /\ EndsWith(Lower(path), DotSlp)
            /\ OnNewFileRead(path, players) /\ tracked_file' # None)
            => SelfVsOne(players)]_vars

---------------------------------------------------------------------------
(* Claims about the live tracker, one statement per step (SpecConc) *)

\* the file _finalize_game takes at line 163 has been read unchanged by the
\* last StableThreshold polls of that very file
StableFor(path) == TrailingRun(Hist(polled[path])) = StableThreshold + 1

\* C4 (as claimed): callback and poll are serialized on the tracking state, so
\* whenever the poll thread enters _finalize_game and takes the tracked file,
\* that file has itself been observed unchanged for 3 consecutive polls.
C4_FinalizeOnlyStableFile ==
    [][(FinalizeTakeFile /\ tracked_file # None) => StableFor(tracked_file)]_vars

---------------------------------------------------------------------------
(* Claims about the Frame Reader (SpecReader) *)

\* C7 (as claimed): whatever bytes the file holds, a call returns a buffer or
\* the unavailable result and never raises.
C7_NeverRaises == returned.kind # "raise"

\* a complete command stream begins at offset pos of d: the message-sizes
\* command with its records wholly in the file, one of them for the
\* game-start tag, and right after it the game-start command of the recorded
\* size, wholly in the file
StreamAt(d, pos) ==
    /\ pos + 1 < Len(d)
    /\ At(d, pos) = CmdPayloads
    /\ LET payload_len == At(d, pos + 1)
           size == GameStartSize(Slice(d, pos + 2, pos + 2 + payload_len - 1))
       IN /\ pos + 1 + payload_len <= Len(d)
          /\ size # NoInt
          /\ pos + 1 + payload_len + 1 + size <= Len(d)
          /\ At(d, pos + 1 + payload_len) = CmdGameStart

WellFormedContainer(d) ==
    Len(d) >= MinLen /\ At(d, 0) = OpenBrace /\ StreamAt(d, ContainerRawPos)

\* byte 0 is the raw command byte and the message-sizes command follows the
\* detected start, whether that is read as offset 0 or as offset 1
WellFormedRaw(d) ==
    Len(d) >= MinLen /\ At(d, 0) = CmdGameStart /\ (StreamAt(d, 0) \/ StreamAt(d, 1))

\* C8 (as claimed): a call on a complete, well-formed file of either layout
\* (byte 0 the raw command byte 0x36, or byte 0 the container's opening
\* marker) returns the game-configuration buffer.
C8_BothLayoutsAccepted ==
    (calls > 0 /\ readable /\ (WellFormedContainer(data) \/ WellFormedRaw(data)))
        => returned.kind = "buf"

RawPos(d) == IF At(d, 0) = CmdGameStart THEN 0 ELSE ContainerRawPos

\* the file has a recognised first byte and the message-sizes tag where the
\* command stream starts
HasDirectory(d) ==
    /\ Len(d) >= MinLen
    /\ At(d, 0) \in {CmdGameStart, OpenBrace}
    /\ At(d, RawPos(d)) = CmdPayloads

PayloadLen(d) == IF RawPos(d) + 1 < Len(d) THEN At(d, RawPos(d) + 1) ELSE 0

\* the size the directory of d records for the game-start tag, NoInt if none
RecordedSize(d) ==
    GameStartSize(Slice(d, RawPos(d) + 2, RawPos(d) + 2 + PayloadLen(d) - 1))

ConfigStart(d) == RawPos(d) + 1 + PayloadLen(d)

\* C9 (as claimed): after a call, the result is unavailable when the directory
\* has no entry for tag 0x36 or when the end computed for the configuration
\* command exceeds the file's length; a returned buffer is the slice of the
\* file right after the directory command, begins with 0x36, is 1 + the
\* recorded 16-bit size long and lies inside the file.
C9_ResultShape ==
    (calls > 0 /\ readable) =>
        /\ (HasDirectory(data) /\ RecordedSize(data) = NoInt) => returned = Unavailable
        /\ (HasDirectory(data) /\ RecordedSize(data) # NoInt
              /\ ConfigStart(data) + 1 + RecordedSize(data) > Len(data))
               => returned = Unavailable
        /\ returned.kind = "buf" =>
               /\ HasDirectory(data)
               /\ RecordedSize(data) # NoInt
               /\ returned.buf = Slice(data, ConfigStart(data),
                                       ConfigStart(data) + 1 + RecordedSize(data))
               /\ returned.buf[1] = CmdGameStart
               /\ Len(returned.buf) = 1 + RecordedSize(data)
               /\ ConfigStart(data) + Len(returned.buf) <= Len(data)

---------------------------------------------------------------------------
(* Claims on the aggregate store under a bulk import (SpecImport) *)

RECURSIVE SumOver(_, _)
SumOver(f, keys) ==
    IF keys = {} THEN 0
    ELSE LET k == CHOOSE x \in keys : TRUE
         IN f[k] + SumOver(f, keys \ {k})

\* the sum of the values of a dict of counts
SumCounts(d) == SumOver(d, DOMAIN d)

\* the sum over the opponents of position i of the pair named field
SumRecords(st, field, i) ==
    SumOver([o \in DOMAIN st.records |-> st.records[o][field][i]], DOMAIN st.records)

\* the sum over the stages of position i of the stage's pair
SumStages(stages, i) == SumOver([s \in DOMAIN stages |-> stages[s][i]], DOMAIN stages)

\* the character appearances counted in the opponents' records
SumTheirChars(st) ==
    SumOver([o \in DOMAIN st.records |-> SumCounts(st.records[o].their_chars)],
            DOMAIN st.records)

\* the games a store counts: every call of _record_game counts one appearance
\* of the user's character, and one win or loss when the game is decided
GamesIn(st) == SumCounts(st.overall.my_chars)

DecidedIn(st) == st.overall.total[1] + st.overall.total[2]

\* a store in which every game is recorded in full: the wins and the losses
\* of the opponents add up to the overall ones, in total, by mode and by
\* set; each total is the sum of its stages; the characters of the opponents
\* and of the user count the same games, and no game has a win or a loss
\* without its characters
Consistent(st) ==
    /\ \A i \in 1..2 :
         /\ \A field \in {"total", "ranked", "unranked", "sets"} :
              SumRecords(st, field, i) = st.overall[field][i]
         /\ SumStages(st.overall.stages, i) = st.overall.total[i]
         /\ \A o \in DOMAIN st.records :
              SumStages(st.records[o].stages, i) = st.records[o].total[i]
    /\ SumTheirChars(st) = GamesIn(st)
    /\ DecidedIn(st) <= GamesIn(st)

\* C5: what a reader on the UI thread is handed to display and persist,
\* the store a save of the bulk import hands over included, records each
\* game in full: never a win or a loss in the totals without its stage and
\* its characters, never an opponent's record updated and the overall
\* record not.
C5_AtomicRecord == persisted # <<>> => Consistent(persisted[1])

\* C6: once the import is complete and the UI thread has run every callback
\* queued, the store the app holds counts every game recorded since the
\* import began, by the import and by the live tracker: no call of
\* _record_game of either is lost.
C6_LiveGameKept ==
    (imported /\ uiq = <<>>) =>
        /\ GamesIn(stores[app_store]) = made.scan + made.live
        /\ DecidedIn(stores[app_store]) = made.scan_decided + made.live_decided

---------------------------------------------------------------------------
(* Claims about the Outcome Resolver (SpecOutcome) *)

HasResolved == resolved # Unresolved

TwoActive == Cardinality(ActivePorts(replay)) = 2

EndMethod == IF replay.end = None THEN NoInt ELSE replay.end[1].method

\* the final frame holds this port
Holds(p) == replay.frames # None /\ replay.frames[1][p] # None

FinalStocks(p) == replay.frames[1][p][1].stocks

FinalDamage(p) == replay.frames[1][p][1].damage

\* C11: on a normal conclusion (method 1, 2 or 3) of a game of two active
\* ports whose final frame holds both, the port with strictly more stocks
\* wins whatever the damage; on equal stocks the port with strictly less
\* damage wins; on equal stocks and equal damage nobody does.
C11_NormalConclusion ==
    (/\ HasResolved /\ EndMethod \in {1, 2, 3} /\ TwoActive
     /\ \A p \in ActivePorts(replay) : Holds(p))
    => \A p \in ActivePorts(replay) : \A q \in ActivePorts(replay) \ {p} :
         /\ FinalStocks(p) > FinalStocks(q) => resolved[1] = p
         /\ (FinalStocks(p) = FinalStocks(q) /\ FinalDamage(p) < FinalDamage(q))
               => resolved[1] = p
         /\ (FinalStocks(p) = FinalStocks(q) /\ FinalDamage(p) = FinalDamage(q))
               => resolved[1] = NoInt

C11_Witness ==
    /\ HasResolved /\ EndMethod \in {1, 2, 3} /\ TwoActive
    /\ \E p \in ActivePorts(replay) : \E q \in ActivePorts(replay) :
         /\ p < q /\ Holds(p) /\ Holds(q)
         /\ FinalStocks(p) = FinalStocks(q) /\ FinalDamage(q) < FinalDamage(p)
         /\ resolved[1] = q

\* C12: on a no-contest end (method 7) of a game of two active ports the
\* winner is the active port that did not initiate the quit, whatever the
\* final frame holds; without an initiator, or with one that is not an
\* active port, nobody wins.
C12_NoContest ==
    (HasResolved /\ EndMethod = 7 /\ TwoActive)
    => LET lras == replay.end[1].lras_initiator
       IN IF lras # NoInt /\ lras \in ActivePorts(replay)
            THEN resolved[1] \in ActivePorts(replay) \ {lras}
            ELSE resolved[1] = NoInt

C12_Witness ==
    /\ HasResolved /\ EndMethod = 7 /\ TwoActive
    /\ \E p \in ActivePorts(replay) : \E q \in ActivePorts(replay) \ {p} :
         /\ replay.end[1].lras_initiator = p
         /\ Holds(p) /\ Holds(q) /\ FinalStocks(p) > FinalStocks(q)
         /\ resolved[1] = q

\* C14: an end method other than 7 and 1, 2, 3 gives no winner, and neither
\* does a normal conclusion whose replay has no final frame or whose final
\* frame misses one of the two active ports.
C14_Indeterminate ==
    (/\ HasResolved /\ replay.end # None
     /\ \/ EndMethod \notin {1, 2, 3, 7}
        \/ /\ EndMethod \in {1, 2, 3}
           /\ \/ replay.frames = None
              \/ TwoActive /\ \E p \in ActivePorts(replay) : ~Holds(p))
    => resolved[1] = NoInt

C14_Witness ==
    /\ HasResolved /\ EndMethod \in {1, 2, 3} /\ TwoActive
    /\ \E p \in ActivePorts(replay) : \E q \in ActivePorts(replay) \ {p} :
         Holds(p) /\ FinalStocks(p) > 0 /\ ~Holds(q)
    /\ resolved[1] = NoInt

---------------------------------------------------------------------------
(* Claims about the Aggregator called in sequence (SpecRecord) *)

\* a record as the claims describe a new opponent: every pair [0, 0], no
\* stage bucket, no character, no last_played
ZeroRecord ==
    [total |-> <<0, 0>>, ranked |-> <<0, 0>>, unranked |-> <<0, 0>>, sets |-> <<0, 0>>,
     stages |-> <<>>, their_chars |-> <<>>, last_played |-> 0]

\* the record of an opponent in a store, a new opponent's when it has none
RecordOf(st, o) == IF o \in DOMAIN st.records THEN st.records[o] ELSE ZeroRecord

CountOf(d, k) == IF k \in DOMAIN d THEN d[k] ELSE 0

BucketOf(stages, s) == IF s \in DOMAIN stages THEN stages[s] ELSE <<0, 0>>

\* the pair with one more win (i = 1) or one more loss (i = 2)
OneMore(pair, i) == IF i = 1 THEN << pair[1] + 1, pair[2] >> ELSE << pair[1], pair[2] + 1 >>

\* a step that is a call of _record_game, and the arguments of the call
Called == Len(history') = Len(history) + 1

LastCall == history'[Len(history')]

\* C15: a call without an outcome creates the opponent's record if it is
\* absent, adds one to the opponent's count of the character played against
\* and to the overall count of the user's character, applies the last_played
\* rule, and leaves every pair (total, ranked, unranked, sets, every stage
\* bucket) of the opponent and of the overall record as it was: all [0, 0]
\* and no bucket for a new opponent.
C15_IndeterminateEffect ==
    [][(Called /\ LastCall.i_won = "None") =>
         LET g == LastCall
             old == RecordOf(agg, g.opp_name)
         IN /\ g.opp_name \in DOMAIN agg'.records
            /\ LET new == agg'.records[g.opp_name]
               IN /\ CountOf(new.their_chars, g.opp_char_id)
                       = CountOf(old.their_chars, g.opp_char_id) + 1
                  /\ new.last_played =
                       IF g.timestamp # 0 /\ g.timestamp > old.last_played
                         THEN g.timestamp ELSE old.last_played
                  /\ new.total = old.total /\ new.ranked = old.ranked
                  /\ new.unranked = old.unranked /\ new.sets = old.sets
                  /\ new.stages = old.stages
                  /\ (g.opp_name \notin DOMAIN agg.records =>
                        /\ new.total = <<0, 0>> /\ new.ranked = <<0, 0>>
                        /\ new.unranked = <<0, 0>> /\ new.sets = <<0, 0>>
                        /\ new.stages = <<>>)
            /\ CountOf(agg'.overall.my_chars, g.my_char_id)
                 = CountOf(agg.overall.my_chars, g.my_char_id) + 1
            /\ agg'.overall.total = agg.overall.total
            /\ agg'.overall.ranked = agg.overall.ranked
            /\ agg'.overall.unranked = agg.overall.unranked
            /\ agg'.overall.sets = agg.overall.sets
            /\ agg'.overall.stages = agg.overall.stages]_vars

\* an indeterminate game against a new opponent was recorded on a store that
\* holds another game's win or loss
C15_Witness ==
    /\ Len(history) = 2
    /\ history[1].i_won # "None" /\ history[2].i_won = "None"
    /\ history[1].opp_name # history[2].opp_name
    /\ agg.records[history[2].opp_name].total = <<0, 0>>
    /\ agg.records[history[2].opp_name].their_chars # <<>>

\* C16: a call with a win (a loss) adds exactly one to the win (loss) cell
\* of total, of the pair of the mode (ranked, unranked, neither for any
\* other mode) and of the stage's bucket, in the opponent's record and in
\* the overall record; no other cell of a pair, no set counter and no other
\* opponent's record changes.
C16_DeterminateEffect ==
    [][(Called /\ LastCall.i_won # "None") =>
         LET g == LastCall
             i == IF g.i_won = "True" THEN 1 ELSE 2
             old == RecordOf(agg, g.opp_name)
             Pairs(new, was) ==
                /\ new.total = OneMore(was.total, i)
                /\ new.ranked =
                     IF g.game_mode = "ranked" THEN OneMore(was.ranked, i) ELSE was.ranked
                /\ new.unranked =
                     IF g.game_mode = "unranked" THEN OneMore(was.unranked, i)
                     ELSE was.unranked
                /\ new.sets = was.sets
                /\ DOMAIN new.stages = DOMAIN was.stages \cup {g.stage_id}
                /\ \A s \in DOMAIN new.stages :
                     new.stages[s] = IF s = g.stage_id
                                       THEN OneMore(BucketOf(was.stages, s), i)
                                       ELSE was.stages[s]
         IN /\ g.opp_name \in DOMAIN agg'.records
            /\ Pairs(agg'.records[g.opp_name], old)
            /\ Pairs(agg'.overall, agg.overall)
            /\ DOMAIN agg'.records = DOMAIN agg.records \cup {g.opp_name}
            /\ \A o \in DOMAIN agg.records \ {g.opp_name} :
                 agg'.records[o] = agg.records[o]]_vars

\* a loss in ranked mode was recorded after a win on another stage against
\* another opponent
C16_Witness ==
    /\ Len(history) = 2
    /\ history[1].i_won = "True" /\ history[2].i_won = "False"
    /\ history[2].game_mode = "ranked"
    /\ history[1].opp_name # history[2].opp_name
    /\ history[1].stage_id # history[2].stage_id
    /\ agg.overall.total = <<1, 1>> /\ agg.overall.ranked[2] = 1

\* the timestamps the calls made so far supplied for an opponent
Supplied(o) == {history[k].timestamp : k \in {j \in 1..Len(history) : history[j].opp_name = o}}

Greatest(S) == CHOOSE x \in S : \A y \in S : y <= x

\* C17: an opponent's last_played is the greatest non-empty timestamp the
\* calls supplied for that opponent, whatever their order (empty when none
\* was supplied), and no call decreases it.
C17_LastPlayedMonotone ==
    /\ [](\A o \in DOMAIN agg.records :
            agg.records[o].last_played = Greatest(Supplied(o) \cup {0}))
    /\ [][\A o \in DOMAIN agg.records :
            agg'.records[o].last_played >= agg.records[o].last_played]_vars

\* an older game was recorded after a newer one against the same opponent
C17_Witness ==
    /\ Len(history) = 2
    /\ history[1].opp_name = history[2].opp_name
    /\ history[1].timestamp = 2 /\ history[2].timestamp = 1
    /\ agg.records[history[1].opp_name].last_played = 2

---------------------------------------------------------------------------
(* Claims about scoring in sequence (SpecSets) *)

\* a step that handles a file, in the import or at a game end, and the file
FileStep ==
    \/ phase = "bulk" /\ Len(handled') = Len(handled) + 1
    \/ Len(ends') = Len(ends) + 1

HandledFile == handled'[Len(handled')]

\* a replay that parses and is not a game of exactly two active ports
NotOneOnOne(f) == f # None /\ Cardinality({p \in PortIds : f[1].players[p]}) # 2

\* every win/loss tally of a record
Tallies(rec) == << rec.total, rec.ranked, rec.unranked, rec.sets, rec.stages >>

\* C13: a game whose number of active ports is not two has no outcome and
\* changes no win/loss tally (total, ranked, unranked, stage, set) of any
\* opponent's record or of the overall record, in the bulk import and at a
\* live game end.
C13_NotOneOnOneUnscored ==
    [][(FileStep /\ NotOneOnOne(HandledFile)) =>
         /\ Len(ends') = Len(ends) + 1 => ends'[Len(ends')].i_won = "None"
         /\ Tallies(agg'.overall) = Tallies(agg.overall)
         /\ \A o \in DOMAIN agg'.records :
              Tallies(agg'.records[o]) = Tallies(RecordOf(agg, o))]_vars

\* a game of three was finalized after two decided games of a ranked match
C13_Witness ==
    /\ phase = "live" /\ handled = << DoublesFile >> /\ Len(ends) = 3
    /\ ends[1].i_won = "True" /\ ends[2].i_won = "False" /\ ends[3].i_won = "None"
    /\ agg.overall.total = <<1, 1>>

\* the sum over the opponents of a cell
SumOfRecords(st, Cell(_)) ==
    SumOver([o \in DOMAIN st.records |-> Cell(st.records[o])], DOMAIN st.records)

AllStages(st) == UNION {DOMAIN st.records[o].stages : o \in DOMAIN st.records}

\* C18: from an empty store, after any calls of _record_game and any set
\* resolutions (_compute_sets, _check_live_set) made in sequence, every cell
\* of the overall total, ranked, unranked and sets pairs and of every stage
\* bucket is the sum of that cell over the opponents' records, and the
\* overall character counts add up to the opponents' character counts.
C18_OverallIsAggregate ==
    /\ \A i \in 1..2 :
         /\ agg.overall.total[i] = SumOfRecords(agg, LAMBDA r : r.total[i])
         /\ agg.overall.ranked[i] = SumOfRecords(agg, LAMBDA r : r.ranked[i])
         /\ agg.overall.unranked[i] = SumOfRecords(agg, LAMBDA r : r.unranked[i])
         /\ agg.overall.sets[i] = SumOfRecords(agg, LAMBDA r : r.sets[i])
         /\ \A s \in AllStages(agg) \cup DOMAIN agg.overall.stages :
              BucketOf(agg.overall.stages, s)[i]
                = SumOfRecords(agg, LAMBDA r : BucketOf(r.stages, s)[i])
    /\ SumCounts(agg.overall.my_chars)
         = SumOfRecords(agg, LAMBDA r : SumCounts(r.their_chars))

\* two opponents, a set credited by the import and one by the tracker
C18_Witness ==
    /\ phase = "live" /\ Cardinality(DOMAIN agg.records) = 2
    /\ agg.overall.sets[1] + agg.overall.sets[2] = 2
    /\ Len(ends) = 2
    /\ agg.overall.unranked # <<0, 0>>

\* the games of a match in the order of their game numbers, all different
DistinctNumbers(games) ==
    \A j \in 1..Len(games) : \A k \in 1..Len(games) :
       j # k => games[j].game_number # games[k].game_number

ByNumber(games) ==
    [k \in 1..Len(games) |->
       games[CHOOSE j \in 1..Len(games) :
               Cardinality({h \in 1..Len(games) :
                              games[h].game_number < games[j].game_number}) = k - 1]]

WonByMe(g) == g.winner_port # NoInt /\ g.players[g.winner_port] = IdMe

LostByMe(g) == g.winner_port # NoInt /\ g.players[g.winner_port] # IdMe

WinsIn(s, k) == Cardinality({j \in 1..k : WonByMe(s[j])})

LossesIn(s, k) == Cardinality({j \in 1..k : LostByMe(s[j])})

\* the side that first has two wins in this order: 1 the user, 2 the
\* opponent, 0 when neither has
FirstToTwo(s) ==
    LET hit == {k \in 1..Len(s) : WinsIn(s, k) = 2 \/ LossesIn(s, k) = 2}
    IN IF hit = {} THEN 0
       ELSE LET k == CHOOSE x \in hit : \A y \in hit : x <= y
            IN IF WinsIn(s, k) = 2 THEN 1 ELSE 2

Credited(pair, side) == IF side = 0 THEN pair ELSE OneMore(pair, side)

\* C19: the batch takes the games of a match id in the order of their game
\* numbers and credits the set once, to the side that first has two wins,
\* in the opponent's set pair and in the overall set pair; games after that
\* change nothing, and a match in which neither side has two wins credits
\* nothing.
C19_BatchSets ==
    [][(phase = "bulk" /\ phase' = "built") =>
         IF MidRanked \in DOMAIN batch.sets
           THEN DistinctNumbers(batch.sets[MidRanked]) =>
                  LET side == FirstToTwo(ByNumber(batch.sets[MidRanked]))
                  IN /\ agg'.overall.sets = Credited(agg.overall.sets, side)
                     /\ agg'.records[IdOp1].sets = Credited(agg.records[IdOp1].sets, side)
                     /\ \A o \in DOMAIN agg.records \ {IdOp1} :
                          agg'.records[o].sets = agg.records[o].sets
           ELSE agg' = agg]_vars

\* games 1 (win), 2 (loss) and 3 (win) of a match, found in another order,
\* credit one set win
C19_Witness ==
    /\ phase = "built" /\ MidRanked \in DOMAIN batch.sets
    /\ LET games == batch.sets[MidRanked]
       IN /\ Len(games) = 3
          /\ games[1].game_number = 3 /\ WonByMe(games[1])
          /\ games[2].game_number = 1 /\ WonByMe(games[2])
          /\ games[3].game_number = 2 /\ LostByMe(games[3])
    /\ agg.overall.sets = <<1, 0>> /\ agg.records[IdOp1].sets = <<1, 0>>

\* the reports of the ranked match among the reports scored
OfTheMatch(r) == r.game_mode = "ranked" /\ r.match_id = MidRanked

\* some report of the sequence gave a side its second win
SetDecided(reports) ==
    \E k \in 1..Len(reports) :
       \/ Cardinality({j \in 1..k : reports[j].i_won = "True"}) = 2
       \/ Cardinality({j \in 1..k : reports[j].i_won = "False"}) = 2

\* C20: of the game-end reports that share a match id, the one that gives a
\* side its second win credits the set, and no report after it changes a
\* set counter of the opponent or of the overall record: the set is credited
\* at most once.
C20_LiveSetOnce ==
    [][(/\ Len(ends') = Len(ends) + 1
        /\ OfTheMatch(ends'[Len(ends')])
        /\ SetDecided(SelectSeq(ends, OfTheMatch)))
       => /\ agg'.overall.sets = agg.overall.sets
          /\ \A o \in DOMAIN agg'.records :
               agg'.records[o].sets = RecordOf(agg, o).sets]_vars

---------------------------------------------------------------------------
(* Claims about the sessions of the live tracker, one handler per step (Spec) *)

\* a step of _finalize_game on a tracked file
Finalizes(result) == tracked_file # None /\ FinalizeGame(result)

\* while a file is tracked the last report is the game-start of its session
SessionStart ==
    /\ emitted.kind = "game_start"
    /\ emitted.file = tracked_file
    /\ emitted.opponent = tracked_opponent

\* C21: every finalize of a tracked file emits one game-end report; it names
\* the opponent and the file of the game-start report of that session, also
\* when the full parse failed (the outcome is then indeterminate), and it
\* leaves the tracker with no tracked file and no tracked opponent.
C21_FinalizeEmits ==
    [][\A result \in ParseResults :
         Finalizes(result)
            => /\ SessionStart
               /\ nreports' = nreports + 1
               /\ emitted'.kind = "game_end"
               /\ emitted'.opponent = emitted.opponent
               /\ emitted'.file = emitted.file
               /\ (result = None => emitted'.i_won = "None")
               /\ tracked_file' = None
               /\ tracked_opponent' = None]_vars

\* a session whose full parse failed: the report carries the metadata read
\* when tracking started (no parse result is of the unranked match), stage 0
\* and no outcome
C21_Witness ==
    /\ emitted.kind = "game_end"
    /\ emitted.opponent = IdOp1
    /\ emitted.file = PathA
    /\ emitted.match_id = MidUnranked
    /\ emitted.stage_id = 0
    /\ emitted.i_won = "None"
    /\ tracked_file = None
    /\ tracked_opponent = None

\* the metadata fields for what read_live_match_metadata returned
MetaFields(match_meta) ==
    IF match_meta = None
      THEN << "unknown", None, 0 >>
      ELSE << match_meta[1].game_mode, match_meta[1].match_id, match_meta[1].game_number >>

\* what _on_new_file identifies (watcher.py 101-111) in the slots that
\* read_live_player_info can return, when it finds an opponent
Identified ==
    { who \in { Identify(players) : players \in PlayerReads \ {None} } :
        who.opp_name # None }

\* C22: when a new-file event succeeds (an opponent was identified and the
\* path is not the tracked one) the tracker holds the path and the opponent,
\* last_size 0 and stable_count 0, the metadata read for the file or
\* ("unknown", "", 0) when none could be read, and one game-start report for
\* the opponent and the file has been emitted.
C22_TrackingStart ==
    [][\A path \in SlpPaths, who \in Identified, match_meta \in MetaReads :
         (path # tracked_file /\ StartTracking(path, who, match_meta))
            => /\ tracked_file' = path
               /\ tracked_opponent' = who.opp_name
               /\ last_size' = 0
               /\ stable_count' = 0
               /\ << tracked_game_mode', tracked_match_id', tracked_game_number' >>
                    = MetaFields(match_meta)
               /\ nreports' = nreports + 1
               /\ emitted'.kind = "game_start"
               /\ emitted'.opponent = who.opp_name
               /\ emitted'.game_mode = MetaFields(match_meta)[1]
               /\ emitted'.file = path]_vars

\* tracking of a second file has just started, for which no metadata could
\* be read
C22_Witness ==
    /\ emitted.kind = "game_start"
    /\ emitted.file = PathB
    /\ tracked_file = PathB
    /\ tracked_opponent = IdOp1
    /\ nreports = 2
    /\ last_size = 0
    /\ stable_count = 0
    /\ tracked_game_mode = "unknown"
    /\ tracked_match_id = None
    /\ tracked_game_number = 0

\* C23: while no file is tracked a modified event does what a created event
\* does (it can start tracking and emit a game-start report); while a file is
\* tracked a modified event changes no field of the tracker and emits nothing.
C23_ModifiedEvents ==
    [][/\ tracked_file = None => (OnModified <=> OnCreated)
       /\ (tracked_file # None /\ OnModified)
            => UNCHANGED << trackerState, emitted, nreports >>]_vars

\* a file is tracked and its count is running: only the events of the idle
\* tracker could start it, and a modified event now is without effect
C23_Witness ==
    /\ tracked_file = PathA
    /\ emitted.kind = "game_start"
    /\ emitted.file = PathA
    /\ nreports = 1
    /\ stable_count = 2

\* C24 (as claimed): finalize leaves no tracked file and no opponent,
\* last_size 0, stable_count 0 and the metadata ("unknown", "", 0).
C24_ResetOnFinalize ==
    [][\A result \in ParseResults :
         Finalizes(result)
            => /\ tracked_file' = None
               /\ tracked_opponent' = None
               /\ last_size' = 0
               /\ stable_count' = 0
               /\ tracked_game_mode' = "unknown"
               /\ tracked_match_id' = None
               /\ tracked_game_number' = 0]_vars

\* C28: a new-file event whose read returns no players leaves the tracker as
\* it was and emits nothing, a poll whose size read fails leaves last_size
\* and stable_count (and everything else) as they were; the tracker is thus
\* in the state it would be in without the failures and reacts to the next
\* event as before.
C28_FailuresAbsorbed ==
    [][/\ \A path \in Paths :
            OnNewFileRead(path, None) => UNCHANGED << trackerVars >>
       /\ PollTurn(NoInt) => UNCHANGED << trackerVars >>]_vars

\* a tracked file two polls into its count, where a failed size read or a
\* failed new-file read must leave the count alone
C28_Witness ==
    /\ running
    /\ tracked_file = PathB
    /\ polled[PathB] = << 2, 2, 2 >>
    /\ last_size = 2
    /\ stable_count = 2

---------------------------------------------------------------------------
(* Claims about stopping the live tracker, one statement per step (SpecConc) *)

\* stop() has returned (watcher.py 86-91) and start() has not been called again
Stopped == ~running /\ ~observer

\* C27 (as claimed): once stop() has returned no thread of the tracker
\* emits a report or changes a field of the tracking state, whatever the poll
\* thread and the timer threads were doing when stop() was called.
C27_CleanStop ==
    [][Stopped => UNCHANGED << trackerState, emitted, nreports >>]_vars

---------------------------------------------------------------------------
(* Claims about the bulk scan (SpecImportFair, SpecImport) *)

\* the files the scan has parsed: the one in hand counts
FilesParsed == IF scan.pc \in {"record", "after"} THEN scan.idx + 1 ELSE scan.idx

\* progress_callback has been called once for each file parsed so far, the
\* last time with (number of the file, total)
C25_OncePerFile ==
    /\ scan.progress = FilesParsed
    /\ scan.progress > 0 => scan.shown = << FilesParsed, NumberOfFiles(scan.dir) >>
    /\ scan.pc \in {"sets", "sets_rec", "sets_ov", "finish", "returned"}
          => scan.progress = NumberOfFiles(scan.dir)

\* a step of the scan that leaves a file without handing a game to _record_game
SkipsFile == scan.pc = "loop" /\ scan'.pc = "loop" /\ scan'.idx = scan.idx + 1

\* C25: the scan takes the files one at a time and calls progress_callback
\* once per file, with (i, total) for i = 1, 2, ... up to total, also for a
\* file that does not parse or is skipped; such a file changes no record;
\* and a scan that has begun goes through all the files and returns.
C25_ScanProgress ==
    /\ []C25_OncePerFile
    /\ [][/\ scan'.progress # scan.progress
             => /\ scan'.progress = scan.progress + 1
                /\ scan'.shown = << scan.idx + 1, NumberOfFiles(scan.dir) >>
          /\ SkipsFile => stores' = stores]_vars
    /\ (scan.pc = "begin")
          ~> (scan.pc = "returned" /\ scan.idx = NumberOfFiles(scan.dir))

\* the scan of the directory of SaveEvery files of which only the first
\* parses has returned: progress was called for each file, one game recorded
C25_Witness ==
    /\ scan.pc = "returned"
    /\ scan.dir = "unparsed"
    /\ scan.progress = SaveEvery
    /\ scan.shown = << SaveEvery, SaveEvery >>
    /\ made.scan = 1

\* C26 (as claimed): a scan of k files has called save_callback k div 100
\* times in the loop, whatever became of each hundredth file, and once more
\* after the sets were resolved.
C26_Checkpoints ==
    scan.pc = "returned" => scan.saves = (NumberOfFiles(scan.dir) \div SaveEvery) + 1

---------------------------------------------------------------------------
(* Claims about the Field Extractor (SpecFields) *)

Extracted == fields # NotExtracted

\* the match-id field lies inside the buffer the reader returned
MatchIdPresent ==
    start_buf.kind = "buf" /\ Len(start_buf.buf) >= MatchIdOffset + MatchIdLen

\* the characters of the match-id field before its first null
MatchIdText ==
    DecodeAscii(Slice(start_buf.buf, MatchIdOffset, MatchIdOffset + MatchIdLen))

\* the bytes of the match-id field are characters
MatchIdIsText ==
    \A i \in 1..Len(MatchIdText) :
        At(start_buf.buf, MatchIdOffset + i - 1) < 128

Begins(s, p) == \A i \in 1..Len(p) : i <= Len(s) /\ s[i] = p[i]

PrefixRanked == <<"m", "o", "d", "e", ".", "r", "a", "n", "k", "e", "d">>
PrefixUnranked == <<"m", "o", "d", "e", ".", "u", "n", "r", "a", "n", "k", "e", "d">>

\* C29: the mode is one of three classes and a function of the match-id
\* string alone: ranked exactly when the string begins with "mode.ranked",
\* unranked exactly when it begins with "mode.unranked", and the unknown
\* class ("unknown" in the advanced parser, "other" in the basic one) for
\* every other string, the empty one included, and when the field is absent
\* or lies outside the buffer.  The basic parser takes a field whose bytes
\* are no string for an absent one.
C29_ModeClassification ==
    Extracted =>
        /\ fields.mode \in {"ranked", "unranked", "unknown"}
        /\ fields.basic_mode \in {"ranked", "unranked", "other"}
        /\ (fields.meta = None) <=> ~MatchIdPresent
        /\ fields.meta # None => fields.meta[1].match_id = MatchIdText
        /\ (fields.mode = "ranked") <=> (MatchIdPresent /\ Begins(MatchIdText, PrefixRanked))
        /\ (fields.mode = "unranked")
              <=> (MatchIdPresent /\ Begins(MatchIdText, PrefixUnranked))
        /\ (fields.basic_mode = "ranked")
              <=> (MatchIdPresent /\ MatchIdIsText /\ Begins(MatchIdText, PrefixRanked))
        /\ (fields.basic_mode = "unranked")
              <=> (MatchIdPresent /\ MatchIdIsText /\ Begins(MatchIdText, PrefixUnranked))

\* a match id that holds "mode.ranked" but does not begin with it
C29_Witness ==
    /\ Extracted
    /\ fields.meta # None
    /\ fields.meta[1].match_id = <<"x", "m", "o", "d", "e", ".", "r", "a", "n", "k", "e", "d">>
    /\ fields.mode = "unknown"
    /\ fields.basic_mode = "other"

\* the ports whose type byte lies inside the buffer and is not 3
ActiveSlots(buf) ==
    {q \in PortIds : TypeOffset(q) < Len(buf) /\ At(buf, TypeOffset(q)) # EmptySlot}

\* C30: the extractor returns the slots whose type byte lies inside the
\* buffer and differs from 3, each once and in increasing port order; when
\* all four type bytes are 3 it returns no player.
C30_SlotsReturned ==
    (Extracted /\ start_buf.kind = "buf") =>
        /\ {fields.players[i].port : i \in 1..Len(fields.players)} = ActiveSlots(start_buf.buf)
        /\ \A i, j \in 1..Len(fields.players) :
              i < j => fields.players[i].port < fields.players[j].port
        /\ (\A q \in PortIds :
               TypeOffset(q) < Len(start_buf.buf)
                  /\ At(start_buf.buf, TypeOffset(q)) = EmptySlot)
              => Len(fields.players) = 0

\* a buffer that holds the four type bytes, all of them 3
C30_Witness ==
    /\ Extracted
    /\ start_buf.kind = "buf"
    /\ Len(start_buf.buf) > TypeOffset(LastPort)
    /\ \A q \in PortIds : At(start_buf.buf, TypeOffset(q)) = EmptySlot
    /\ fields.players = <<>>

---------------------------------------------------------------------------
(* Claims about the life of a session (SpecLive, Spec) *)

\* the last poll of the tracked file read another size than the poll before
Growing ==
    /\ tracked_file # None
    /\ LET seen == polled[tracked_file]
       IN Len(seen) >= 2 /\ seen[Len(seen)] # seen[Len(seen) - 1]

Opponents == { who.opp_name : who \in Identified }

\* C31: when the tracker tracks a file for an opponent and the polls of the
\* tracked file come to read a size that no longer changes, a game-end
\* report for that opponent is eventually emitted with the tracker back to
\* Idle, whatever events for other files arrive; the tracker is taken to keep
\* running and to stay below the number of reports the model follows.
C31_SessionEnds ==
    (<>[]~Growing) =>
        \A opp \in Opponents :
            (tracked_file # None /\ tracked_opponent = opp)
                ~> \/ (emitted.kind = "game_end" /\ emitted.opponent = opp
                         /\ tracked_file = None)
                   \/ ~running
                   \/ nreports >= MaxReports

\* C32: a file is reported at most once: events are delivered at least
\* once, so an event for a file can arrive again after the file has been
\* finalized, and it starts no second session.  Checked on the reports that
\* follow one another: after the game-end report of a file, the next report
\* is not a game-start for the same file.
C32_ReportedOnce ==
    [][\A path \in SlpPaths :
          (emitted.kind = "game_end" /\ emitted.file = path)
             => ~(emitted'.kind = "game_start" /\ emitted'.file = path)]_vars

---------------------------------------------------------------------------
(* Claims about concurrent callbacks, one statement per step (SpecConc) *)

\* thread t has passed the test of watcher.py 113 and is starting a session
StartsSession(t) ==
    cb[t].pc \in {"set_file", "set_opponent", "set_size", "set_count", "set_meta", "report"}

\* C33: when the timer thread of a created event and the observer thread
\* handling a modified event run _on_new_file for the same path, the test
\* "path differs from the tracked path" and the assignment of the tracked
\* path are not separated by the other callback: two threads never start
\* a session for the same path at the same time, and a game-start report
\* for a file is not followed by a second game-start report for it.
C33_OneStartPerSession ==
    /\ [](\A t, u \in CbThreads :
            (t # u /\ StartsSession(t) /\ StartsSession(u)) => cb[t].path # cb[u].path)
    /\ [][(emitted.kind = "game_start" /\ nreports' = nreports + 1
             /\ emitted'.kind = "game_start")
            => emitted'.file # emitted.file]_vars

---------------------------------------------------------------------------
(* Claims about the Frame Reader on a growing file (SpecReader) *)

\* C34: the Frame Reader is stable under append-only growth: when it returns
\* a buffer for a file, it returns the same buffer for the file with a byte
\* appended, and so for every file obtained by appending bytes; a file that
\* only grows never goes from a buffer back to unavailable or to another
\* buffer.
C34_StableUnderAppend ==
    [][(Len(data') = Len(data) + 1 /\ ReadGameStartBuf(data).kind = "buf")
          => ReadGameStartBuf(data') = ReadGameStartBuf(data)]_vars

\* a read of a file that has grown past the end of the game-start command
\* returned the buffer that the file one byte shorter gives
C34_Witness ==
    /\ calls >= 1
    /\ returned.kind = "buf"
    /\ Len(data) > ContainerRawPos + 1 + At(data, ContainerRawPos + 1) + Len(returned.buf)
    /\ returned = ReadGameStartBuf(SubSeq(data, 1, Len(data) - 1))

---------------------------------------------------------------------------
(* Claims about the domain and the symmetry of the Outcome Resolver         *)
(* (SpecOutcome)                                                            *)

\* the other of the two active ports
OtherPort(p) == CHOOSE q \in ActivePorts(replay) : q # p

\* the replay with what the final frame holds for the two active ports
\* exchanged
Exchanged ==
    IF replay.frames = None THEN replay
    ELSE LET ports == replay.frames[1]
             p0 == FirstPort(ActivePorts(replay))
             p1 == SecondPort(ActivePorts(replay))
         IN [replay EXCEPT !.frames =
               << [p \in PortIds |-> IF p = p0 THEN ports[p1]
                                     ELSE IF p = p1 THEN ports[p0] ELSE ports[p]] >>]

\* C35: the result is indeterminate or one of the two active ports, never
\* an inactive port; on a normal conclusion, exchanging the final-frame
\* stocks and damage of the two active ports exchanges the winner, and an
\* indeterminate result stays indeterminate.
C35_DomainAndSymmetry ==
    HasResolved =>
        /\ resolved[1] \in {NoInt} \cup ActivePorts(replay)
        /\ resolved[1] # NoInt => TwoActive
        /\ (TwoActive /\ EndMethod \in MethodsNormal) =>
              DetermineWinnerPort(Exchanged) =
                 IF resolved[1] = NoInt THEN NoInt ELSE OtherPort(resolved[1])

\* the first of the ports 1 and 3 wins on stocks, and the third wins once
\* the final frames are exchanged
C35_Witness ==
    /\ HasResolved /\ EndMethod \in MethodsNormal
    /\ ActivePorts(replay) = {1, 3}
    /\ Holds(1) /\ Holds(3) /\ FinalStocks(1) > FinalStocks(3)
    /\ resolved[1] = 1
    /\ DetermineWinnerPort(Exchanged) = 3

---------------------------------------------------------------------------
(* Claims about the cells of one record (SpecRecord) *)

\* the wins and the losses of a record are those of its stage buckets, and
\* its ranked and unranked games are among them
CellsAgree(r) ==
    \A i \in 1..2 :
        /\ r.total[i] = SumStages(r.stages, i)
        /\ r.ranked[i] + r.unranked[i] <= r.total[i]

\* C36: from an empty store, after any sequence of _record_game calls, in
\* every opponent record and in the overall record the total wins (losses)
\* are the sum of the wins (losses) of the stage buckets, ranked plus
\* unranked is at most the total in each cell, and the decided games of an
\* opponent (total wins plus losses) are at most the sum of that opponent's
\* character appearance counts.
C36_RecordConsistency ==
    /\ CellsAgree(agg.overall)
    /\ \A o \in DOMAIN agg.records :
         /\ CellsAgree(agg.records[o])
         /\ agg.records[o].total[1] + agg.records[o].total[2]
              <= SumCounts(agg.records[o].their_chars)

\* two calls for one opponent, a ranked win on a stage and a game without
\* an outcome: one decided game, two character appearances, one bucket
C36_Witness ==
    /\ Len(history) = 2
    /\ history[1].opp_name = history[2].opp_name
    /\ history[1].i_won = "True" /\ history[1].game_mode = "ranked"
    /\ history[2].i_won = "None"
    /\ LET r == agg.records[history[1].opp_name]
       IN /\ r.total = <<1, 0>> /\ r.ranked = <<1, 0>>
          /\ SumStages(r.stages, 1) = 1
          /\ SumCounts(r.their_chars) = 2

---------------------------------------------------------------------------
(* Claims about the two ways a set is resolved (SpecSets) *)

\* the replay the tracker finalized for a report
FileOf(r) == CHOOSE f \in LiveFiles : GameEndArgs(Tracked, ParseCompletedGame(f)) = r

\* slp_parser.py 548-583: the group build_advanced_winrate collects from
\* the replays of a sequence of reports, the files it skips left out
BatchGroup(reports) ==
    LET parsed == [i \in 1..Len(reports) |-> ParseCompletedGame(FileOf(reports[i]))]
        InGroup(result) ==
            /\ result # None
            /\ MyPortOf(result[1].players) # NoInt
            /\ OppPortOf(result[1].players) # NoInt
            /\ result[1].game_mode = "ranked" /\ result[1].match_id # None
        kept == SelectSeq(parsed, InGroup)
    IN [i \in 1..Len(kept) |-> kept[i][1]]

\* the store _compute_sets leaves when it is run on that group alone
BatchResolved(reports) ==
    LET group == BatchGroup(reports)
    IN IF group = <<>> THEN EmptyStore
       ELSE ComputeSets(EmptyStore, (MidRanked :> group), << MidRanked >>)

InNumberOrder(reports) ==
    \A i \in 1..(Len(reports) - 1) : reports[i].game_number <= reports[i + 1].game_number

\* the store holds the games of the reports and no imported game
OnlyLiveGames == phase = "live" /\ ends # <<>> /\ GamesIn(agg) = Len(ends)

\* C37: for the ranked games of one match id against one opponent, reported
\* in the order of their game numbers, the set credit left by the live
\* resolution (_on_game_end and _check_live_set after each game) is the set
\* credit _compute_sets gives for the whole group.
C37_LiveEqualsBatch ==
    (/\ OnlyLiveGames
     /\ \A i \in 1..Len(ends) : OfTheMatch(ends[i]) /\ ends[i].opponent_name = IdOp1
     /\ InNumberOrder(ends))
    => /\ agg.overall.sets = BatchResolved(ends).overall.sets
       /\ RecordOf(agg, IdOp1).sets = RecordOf(BatchResolved(ends), IdOp1).sets

====
